---- MODULE Spec2Model ----
(***************************************************************************)
(* Connectivity engine of the ESP32 controller backend                     *)
(* (server/routes.ts): the three reachability probes, the protocol/port    *)
(* detector, testDeviceConnection and the command dispatcher.              *)
(*                                                                         *)
(* JavaScript runs every callback to completion, so each handler (a timer  *)
(* callback, an event listener, the continuation after an await) is one    *)
(* atomic action.  The order of the calls made inside one handler is kept  *)
(* in the session's history `hist`.  What the device and the libraries do  *)
(* (answer, refuse, stay silent, throw) is chosen nondeterministically.    *)
(***************************************************************************)
EXTENDS Integers, Sequences, FiniteSets, TLC

VARIABLES
  call,      \* the top-level function being executed
  reqPort,   \* its port argument (device.port for sendDeviceCommand)
  command,   \* command.command (sendDeviceCommand only)
  dev,       \* what the device at the address speaks on each port
  pc,        \* position of the top-level function
  result,    \* settlement of the promise the top-level function returned
  probes,    \* the probe calls started so far, in start order
  sessions,  \* the clients / sockets constructed so far, in creation order
  payload,   \* command.entityId and command.value (sendDeviceCommand only)
  invoked,   \* the native operations called on the client, with their argument
  scan,      \* state of scanNetworkForDevices
  earlier,   \* outcomes of the detectDevicePort calls made before this one
  registry,  \* the MemStorage instance: its devices map and currentId
  requests   \* the HTTP requests received so far, each with its handler's position

vars == <<call, reqPort, command, dev, pc, result, probes, sessions,
          payload, invoked, scan, earlier, registry, requests>>

----------------------------------------------------------------------------
(* Inputs and bounds *)

HTTP_PORT == 80
NATIVE_PORT == 6053
OtherPort == 8080
MaxLate == 1

Ports == {HTTP_PORT, NATIVE_PORT, OtherPort}

NoPort == 0

KnownCommands ==
  {"toggle", "set_brightness", "set_color", "set_effect", "restart", "factory_reset"}

Commands == KnownCommands \cup {"blink_morse"}

HttpBehaviour == {"none", "ok", "bad"}

\* command.entityId, as the characters of the string
EntityIds == {<<"l", "e", "d", "_", "s", "t", "r", "i", "p">>, <<"1", "2">>}

\* command.value: absent, an object without color, an object with a color
NoValue ==
  [present |-> FALSE, hasColor |-> FALSE, on |-> FALSE, brightness |-> 0,
   effect |-> "", color |-> [r |-> 0, g |-> 0, b |-> 0]]

Values ==
  {NoValue,
   [NoValue EXCEPT !.present = TRUE, !.on = TRUE, !.brightness = 128, !.effect = "rainbow"],
   [NoValue EXCEPT !.present = TRUE, !.hasColor = TRUE,
                   !.color = [r |-> 255, g |-> 0, b |-> 0]]}

NoPayload == [entityId |-> <<>>, value |-> NoValue]

Payloads == [entityId : EntityIds, value : Values]

NoScan == [pc |-> "idle"]

\* new MemStorage(): storage.ts lines 18-21
EmptyRegistry == [devices |-> <<>>, currentId |-> 1]

----------------------------------------------------------------------------
(* Helpers on histories *)

Count(h, e) == Cardinality({k \in DOMAIN h : h[k] = e})

First(h, e) ==
  IF \E k \in DOMAIN h : h[k] = e
    THEN CHOOSE k \in DOMAIN h : h[k] = e /\ \A j \in DOMAIN h : h[j] = e => k <= j
    ELSE 0

Last(h, e) ==
  IF \E k \in DOMAIN h : h[k] = e
    THEN CHOOSE k \in DOMAIN h : h[k] = e /\ \A j \in DOMAIN h : h[j] = e => j <= k
    ELSE 0

----------------------------------------------------------------------------
(* Promises *)

Pending == [state |-> "pending", port |-> NoPort, val |-> ""]

Settle(r, st, p, v) ==
  IF r.state = "pending" THEN [state |-> st, port |-> p, val |-> v] ELSE r

ResolveProbe(ps, i, v) ==
  IF ps[i].verdict = "pending"
    THEN [ps EXCEPT ![i].verdict = v, ![i].pc = "settled"]
    ELSE ps

NewProbe(kind, port) ==
  [kind |-> kind, port |-> port, pc |-> "resolve", verdict |-> "pending",
   how |-> ""]

StartProbe(kind, port) == probes' = Append(probes, NewProbe(kind, port))

InFlight == {i \in DOMAIN probes : probes[i].verdict = "pending"}

LastVerdict == IF probes = <<>> THEN "none" ELSE probes[Len(probes)].verdict

----------------------------------------------------------------------------
(* resolveHost catches a failed lookup and returns the string it was given: *)
(* either way its caller continues with a host, so the lookup is the       *)
(* "resolve" position of a probe and carries no state of its own.          *)

Devices == [http : [Ports -> HttpBehaviour], native : [Ports -> BOOLEAN]]

\* only detectDevicePort contacts a port other than the one it is given
DevicesFor(c, p) ==
  IF c = "detect" THEN Devices
  ELSE {d \in Devices : \A q \in Ports \ {p} : d.http[q] = "none" /\ ~d.native[q]}

Init ==
  /\ call \in {"detect", "test", "send"}
  /\ reqPort \in Ports
  /\ command \in (IF call = "send" THEN Commands ELSE {"none"})
  /\ dev \in DevicesFor(call, reqPort)
  /\ pc = "start"
  /\ result = Pending
  /\ probes = <<>>
  /\ sessions = <<>>
  /\ payload \in (IF call = "send" THEN Payloads ELSE {NoPayload})
  /\ invoked = <<>>
  /\ scan = NoScan
  /\ earlier = <<>>
  /\ registry = EmptyRegistry
  /\ requests = <<>>

----------------------------------------------------------------------------
(* Sessions: an ESPHomeClient (checkNative, sendDeviceCommand) or a        *)
(* net.Socket (checkSocket) together with the timer its owner armed.       *)

NewSession(owner, i, port, ls) ==
  [owner |-> owner, probe |-> i, port |-> port, listeners |-> ls,
   timer |-> "armed", open |-> TRUE, destroyed |-> FALSE,
   hist |-> <<"setTimeout", "connect">>, op |-> "none", late |-> 0]

Did(s, e) == [s EXCEPT !.hist = Append(@, e)]

once(s, e) == [s EXCEPT !.listeners = @ \ {e}]

clearTimeout(s) ==
  [s EXCEPT !.timer = IF @ = "armed" THEN "cleared" ELSE @,
            !.hist = Append(@, "clearTimeout")]

timerFired(s) == [s EXCEPT !.timer = "fired"]

\* variant: cleanup leaves the listeners registered
cleanup_KeepsListeners(s) ==
  [s EXCEPT !.open = FALSE,
            !.hist = @ \o <<"removeAllListeners", "disconnect">>]

\* cleanup of checkNative and of sendDeviceCommand: a throw of disconnect()
\* is swallowed, the call has been made either way
cleanup(s) ==
  [s EXCEPT !.listeners = {}, !.open = FALSE,
            !.hist = @ \o <<"removeAllListeners", "disconnect">>]

socketEnd(s) == [s EXCEPT !.open = FALSE, !.hist = Append(@, "end")]

socketDestroy(s) ==
  [s EXCEPT !.open = FALSE, !.destroyed = TRUE, !.hist = Append(@, "destroy")]

\* connect() returned: the library is working on the connection
Connecting(s) == Count(s.hist, "connect_throw") = 0

\* the value a handler passed to resolve / reject is the last entry of hist
Delivered(s) == s.hist[Len(s.hist)]

VerdictOf(s) == IF Delivered(s) = "resolve_true" THEN "true" ELSE "false"

----------------------------------------------------------------------------
(* checkRest *)

\* what axios can report for a request to the given port of the device
HttpOutcomes(p) ==
  {"timeout"} \cup
    (CASE dev.http[p] = "ok"  -> {"2xx"}
       [] dev.http[p] = "bad" -> {"non2xx"}
       [] OTHER               -> {"refused"})

\* axios rejects on a transport error, a timeout and, with its default
\* validateStatus, on every status outside 200..299
axiosThrows(o) == o # "2xx"

checkRestVerdict(o) == IF axiosThrows(o) THEN "false" ELSE "true"

RestRequest(i) ==
  /\ probes[i].kind = "rest" /\ probes[i].pc = "resolve"
  /\ probes' = [probes EXCEPT ![i].pc = "request"]
  /\ UNCHANGED <<call, reqPort, command, payload, dev, scan, registry, requests, earlier, invoked, pc, result, sessions>>

RestSettle(i) ==
  /\ probes[i].kind = "rest" /\ probes[i].pc = "request"
  /\ \E o \in HttpOutcomes(probes[i].port) :
       probes' = ResolveProbe([probes EXCEPT ![i].how = o], i, checkRestVerdict(o))
  /\ UNCHANGED <<call, reqPort, command, payload, dev, scan, registry, requests, earlier, invoked, pc, result, sessions>>

----------------------------------------------------------------------------
(* checkNative *)

nativeOnConnectThrow(s) ==
  Did(cleanup(clearTimeout(Did(s, "connect_throw"))), "resolve_false")

\* variant: the timer callback reports success
nativeOnTimer_ResolvesTrue(s) == Did(cleanup(timerFired(s)), "resolve_true")

nativeOnTimer(s) == Did(cleanup(timerFired(s)), "resolve_false")

\* variant: the 'connected' listener forgets clearTimeout
nativeOnConnected_NoClearTimeout(s) ==
  Did(cleanup(once(s, "connected")), "resolve_true")

nativeOnConnected(s) ==
  Did(cleanup(clearTimeout(once(s, "connected"))), "resolve_true")

nativeOnError(s) ==
  Did(cleanup(clearTimeout(once(s, "error"))), "resolve_false")

\* the continuation of the executor after `await resolveHost(ip)`
NativeSetup(i) ==
  /\ probes[i].kind = "native" /\ probes[i].pc = "resolve"
  /\ \E outcome \in {"ctor_throws", "connect_throws", "connecting"} :
       LET s0 == NewSession("checkNative", i, probes[i].port, {"connected", "error"})
           p0 == [probes EXCEPT ![i].how = outcome]
       IN CASE outcome = "ctor_throws" ->
                 \* the async executor rejects; resolve is never called
                 /\ probes' = [p0 EXCEPT ![i].pc = "stuck"]
                 /\ UNCHANGED sessions
            [] outcome = "connect_throws" ->
                 /\ sessions' = Append(sessions, nativeOnConnectThrow(s0))
                 /\ probes' = ResolveProbe(p0, i, VerdictOf(nativeOnConnectThrow(s0)))
            [] OTHER ->
                 /\ sessions' = Append(sessions, s0)
                 /\ probes' = [p0 EXCEPT ![i].pc = "wait"]
  /\ UNCHANGED <<call, reqPort, command, payload, dev, scan, registry, requests, earlier, invoked, pc, result>>

NativeHandle(k, after) ==
  /\ sessions' = [sessions EXCEPT ![k] = after]
  /\ probes' = ResolveProbe(probes, sessions[k].probe, VerdictOf(after))
  /\ UNCHANGED <<call, reqPort, command, payload, dev, scan, registry, requests, earlier, invoked, pc, result>>

NativeTimeout(k) ==
  /\ sessions[k].owner = "checkNative" /\ sessions[k].timer = "armed"
  /\ NativeHandle(k, nativeOnTimer(sessions[k]))

NativeConnected(k) ==
  /\ sessions[k].owner = "checkNative" /\ "connected" \in sessions[k].listeners
  /\ dev.native[sessions[k].port]
  /\ NativeHandle(k, nativeOnConnected(sessions[k]))

NativeError(k) ==
  /\ sessions[k].owner = "checkNative" /\ "error" \in sessions[k].listeners
  /\ NativeHandle(k, nativeOnError(sessions[k]))

\* a 'connected' emitted when no listener is registered any more
NativeLateConnected(k) ==
  /\ sessions[k].owner = "checkNative" /\ "connected" \notin sessions[k].listeners
  /\ Connecting(sessions[k])
  /\ dev.native[sessions[k].port]
  /\ sessions[k].late < MaxLate
  /\ sessions' = [sessions EXCEPT ![k].late = @ + 1, ![k].hist = Append(@, "late_connected")]
  /\ UNCHANGED <<call, reqPort, command, payload, dev, scan, registry, requests, earlier, invoked, pc, result, probes>>

----------------------------------------------------------------------------
(* checkSocket *)

Listening(p) == dev.native[p] \/ dev.http[p] # "none"

\* variant: the timer callback reports success
socketOnTimer_ResolvesTrue(s) == Did(socketDestroy(timerFired(s)), "resolve_true")

socketOnTimer(s) == Did(socketDestroy(timerFired(s)), "resolve_false")

socketOnConnect(s) ==
  Did(socketEnd(clearTimeout(once(s, "connect"))), "resolve_true")

socketOnError(s) ==
  Did(socketDestroy(clearTimeout(once(s, "error"))), "resolve_false")

SocketSetup(i) ==
  /\ probes[i].kind = "socket" /\ probes[i].pc = "resolve"
  /\ probes' = [probes EXCEPT ![i].pc = "wait"]
  /\ sessions' = Append(sessions,
                        NewSession("checkSocket", i, probes[i].port, {"connect", "error"}))
  /\ UNCHANGED <<call, reqPort, command, payload, dev, scan, registry, requests, earlier, invoked, pc, result>>

SocketTimeout(k) ==
  /\ sessions[k].owner = "checkSocket" /\ sessions[k].timer = "armed"
  /\ NativeHandle(k, socketOnTimer(sessions[k]))

SocketConnect(k) ==
  /\ sessions[k].owner = "checkSocket" /\ "connect" \in sessions[k].listeners
  /\ ~sessions[k].destroyed /\ sessions[k].open
  /\ Listening(sessions[k].port)
  /\ NativeHandle(k, socketOnConnect(sessions[k]))

\* a destroyed socket emits nothing; one that was only ended can still fail
SocketError(k) ==
  /\ sessions[k].owner = "checkSocket" /\ "error" \in sessions[k].listeners
  /\ ~sessions[k].destroyed
  /\ NativeHandle(k, socketOnError(sessions[k]))

----------------------------------------------------------------------------
(* detectDevicePort *)

\* variant: a result is only reported by the first call of the process
Return_OnlyFirstCall(st, p, v) ==
  /\ result' = Settle(result, st, IF earlier = <<>> THEN p ELSE NoPort, v)
  /\ pc' = "done"
  /\ UNCHANGED probes

Return(st, p, v) ==
  /\ result' = Settle(result, st, p, v)
  /\ pc' = "done"
  /\ UNCHANGED probes

\* an awaited probe that rejected would make the caller reject
Rethrow == Return("rejected", NoPort, "probe rejected")

Resumable(at) ==
  /\ pc = at
  /\ LastVerdict \in {"true", "false", "rejected"}

\* variant: the native probe is tried first
DetectStart_NativeFirst ==
  /\ call = "detect" /\ pc = "start"
  /\ StartProbe("native", reqPort)
  /\ pc' = "rest_requested"
  /\ UNCHANGED <<call, reqPort, command, payload, dev, scan, registry, requests, earlier, invoked, result, sessions>>

DetectStart ==
  /\ call = "detect" /\ pc = "start"
  /\ StartProbe("rest", reqPort)
  /\ pc' = "rest_requested"
  /\ UNCHANGED <<call, reqPort, command, payload, dev, scan, registry, requests, earlier, invoked, result, sessions>>

\* variant: line 326 is reached whatever line 323 found
DetectAfterRestRequested_NoShortCircuit ==
  /\ call = "detect" /\ Resumable("rest_requested")
  /\ StartProbe("native", reqPort)
  /\ pc' = "native_requested"
  /\ UNCHANGED <<call, reqPort, command, payload, dev, scan, registry, requests, earlier, invoked, result, sessions>>

\* line 323 resumed, then line 326
DetectAfterRestRequested ==
  /\ call = "detect" /\ Resumable("rest_requested")
  /\ CASE LastVerdict = "true" -> Return("returned", reqPort, "")
       [] LastVerdict = "rejected" -> Rethrow
       [] OTHER ->
            /\ StartProbe("native", reqPort)
            /\ pc' = "native_requested"
            /\ UNCHANGED result
  /\ UNCHANGED <<call, reqPort, command, payload, dev, scan, registry, requests, earlier, invoked, sessions>>

\* line 330, also reached from line 329 when its left operand is false
DetectNativeDefault ==
  IF reqPort # NATIVE_PORT
    THEN /\ StartProbe("native", NATIVE_PORT)
         /\ pc' = "native_default"
         /\ UNCHANGED result
    ELSE Return("returned", NoPort, "")

\* line 326 resumed, then line 329
DetectAfterNativeRequested ==
  /\ call = "detect" /\ Resumable("native_requested")
  /\ CASE LastVerdict = "true" -> Return("returned", reqPort, "")
       [] LastVerdict = "rejected" -> Rethrow
       [] OTHER ->
            IF reqPort # HTTP_PORT
              THEN /\ StartProbe("rest", HTTP_PORT)
                   /\ pc' = "rest_default"
                   /\ UNCHANGED result
              ELSE DetectNativeDefault
  /\ UNCHANGED <<call, reqPort, command, payload, dev, scan, registry, requests, earlier, invoked, sessions>>

\* line 329 resumed, then line 330
DetectAfterRestDefault ==
  /\ call = "detect" /\ Resumable("rest_default")
  /\ CASE LastVerdict = "true" -> Return("returned", HTTP_PORT, "")
       [] LastVerdict = "rejected" -> Rethrow
       [] OTHER -> DetectNativeDefault
  /\ UNCHANGED <<call, reqPort, command, payload, dev, scan, registry, requests, earlier, invoked, sessions>>

\* variant: the last fallback is reported whatever its probe found
DetectAfterNativeDefault_AlwaysDefault ==
  /\ call = "detect" /\ Resumable("native_default")
  /\ Return("returned", NATIVE_PORT, "")
  /\ UNCHANGED <<call, reqPort, command, payload, dev, scan, registry, requests, earlier, invoked, sessions>>

\* line 330 resumed, then line 332
DetectAfterNativeDefault ==
  /\ call = "detect" /\ Resumable("native_default")
  /\ CASE LastVerdict = "true" -> Return("returned", NATIVE_PORT, "")
       [] LastVerdict = "rejected" -> Rethrow
       [] OTHER -> Return("returned", NoPort, "")
  /\ UNCHANGED <<call, reqPort, command, payload, dev, scan, registry, requests, earlier, invoked, sessions>>

----------------------------------------------------------------------------
(* testDeviceConnection *)

TestStart ==
  /\ call = "test" /\ pc = "start"
  /\ StartProbe("native", reqPort)
  /\ pc' = "native_requested"
  /\ UNCHANGED <<call, reqPort, command, payload, dev, scan, registry, requests, earlier, invoked, result, sessions>>

\* variant: the socket probe is started whatever the native probe found
TestAfterNative_AlwaysSocket ==
  /\ call = "test" /\ Resumable("native_requested")
  /\ StartProbe("socket", reqPort)
  /\ pc' = "socket_requested"
  /\ UNCHANGED <<call, reqPort, command, payload, dev, scan, registry, requests, earlier, invoked, result, sessions>>

TestAfterNative ==
  /\ call = "test" /\ Resumable("native_requested")
  /\ CASE LastVerdict = "true" -> Return("returned", NoPort, "true")
       [] LastVerdict = "rejected" -> Rethrow
       [] OTHER ->
            /\ StartProbe("socket", reqPort)
            /\ pc' = "socket_requested"
            /\ UNCHANGED result
  /\ UNCHANGED <<call, reqPort, command, payload, dev, scan, registry, requests, earlier, invoked, sessions>>

TestAfterSocket ==
  /\ call = "test" /\ Resumable("socket_requested")
  /\ IF LastVerdict = "rejected" THEN Rethrow
                                 ELSE Return("returned", NoPort, LastVerdict)
  /\ UNCHANGED <<call, reqPort, command, payload, dev, scan, registry, requests, earlier, invoked, sessions>>

----------------------------------------------------------------------------
(* sendDeviceCommand and executeNativeCommand *)

\* sendDeviceCommand, line 430
DispatchProtocol(port) == IF port = HTTP_PORT THEN "http" ELSE "native"

\* variant: two case labels of the switch are exchanged
nativeOperation_Exchanged(c) ==
  CASE c = "toggle"         -> "switchCommandService"
    [] c = "set_brightness" -> "lightCommandService"
    [] c = "set_color"      -> "lightCommandService"
    [] c = "set_effect"     -> "lightCommandService"
    [] c = "restart"        -> "factoryResetService"
    [] c = "factory_reset"  -> "rebootService"
    [] OTHER                -> "throw"

\* the switch of executeNativeCommand
nativeOperation(c) ==
  CASE c = "toggle"         -> "switchCommandService"
    [] c = "set_brightness" -> "lightCommandService"
    [] c = "set_color"      -> "lightCommandService"
    [] c = "set_effect"     -> "lightCommandService"
    [] c = "restart"        -> "rebootService"
    [] c = "factory_reset"  -> "factoryResetService"
    [] OTHER                -> "throw"

\* Number(command.entityId) for an id given as its characters: a string
\* of decimal digits is that number ("" is 0), any other string is NaN
Digits == {"0", "1", "2", "3", "4", "5", "6", "7", "8", "9"}

DigitValue(ch) ==
  CASE ch = "0" -> 0 [] ch = "1" -> 1 [] ch = "2" -> 2 [] ch = "3" -> 3
    [] ch = "4" -> 4 [] ch = "5" -> 5 [] ch = "6" -> 6 [] ch = "7" -> 7
    [] ch = "8" -> 8 [] OTHER -> 9

RECURSIVE DecimalValue(_)
DecimalValue(cs) ==
  IF cs = <<>> THEN 0
  ELSE 10 * DecimalValue(SubSeq(cs, 1, Len(cs) - 1)) + DigitValue(cs[Len(cs)])

Number(cs) ==
  IF \A k \in DOMAIN cs : cs[k] \in Digits
    THEN [nan |-> FALSE, value |-> DecimalValue(cs)]
    ELSE [nan |-> TRUE, value |-> 0]

\* evaluating the argument of a case of executeNativeCommand reads
\* command.value.<field>, and command.value.color.r for set_color: a
\* missing value (or color) throws a TypeError before the client is called
argumentThrows(c, v) ==
  \/ c \in {"toggle", "set_brightness", "set_color", "set_effect"} /\ ~v.present
  \/ c = "set_color" /\ ~v.hasColor

\* the object handed to the native operation
nativeArgument(c, e, v) ==
  CASE c = "toggle"         -> [key |-> Number(e), state |-> v.on]
    [] c = "set_brightness" -> [key |-> Number(e), brightness |-> v.brightness]
    [] c = "set_color"      -> [key |-> Number(e), red |-> v.color.r,
                                green |-> v.color.g, blue |-> v.color.b]
    [] c = "set_effect"     -> [key |-> Number(e), effect |-> v.effect]
    [] OTHER                -> <<>>

\* variant: the timer callback rejects the way the 'error' listener does
sendOnTimer_RejectsAsError(s) == Did(cleanup(timerFired(s)), "reject_error")

sendOnTimer(s) == Did(cleanup(timerFired(s)), "reject_Timeout")

sendOnError(s) == Did(cleanup(clearTimeout(once(s, "error"))), "reject_error")

\* variant: the catch block rejects without cleanup
sendAfterExecute_NoCleanup(s, how) ==
  Did(clearTimeout([s EXCEPT !.op = "done"]), how)

\* lines 467-469 and 471-473: what follows the await of executeNativeCommand
sendAfterExecute(s, how) ==
  Did(cleanup(clearTimeout([s EXCEPT !.op = "done"])), how)

\* the outcome a handler of sendDeviceCommand delivers to the caller
SendOutcome(s) ==
  CASE Delivered(s) = "resolve_native"     -> [state |-> "returned", val |-> "native"]
    [] Delivered(s) = "reject_Timeout"     -> [state |-> "rejected", val |-> "Timeout"]
    [] Delivered(s) = "reject_Unsupported" -> [state |-> "rejected", val |-> "Unsupported command"]
    [] Delivered(s) = "reject_error"       -> [state |-> "rejected", val |-> "session error"]
    [] OTHER                               -> [state |-> "rejected", val |-> "operation failed"]

SendStart ==
  /\ call = "send" /\ pc = "start"
  /\ pc' = IF DispatchProtocol(reqPort) = "http" THEN "http_resolve" ELSE "native_resolve"
  /\ UNCHANGED <<call, reqPort, command, payload, dev, scan, registry, requests, earlier, invoked, result, probes, sessions>>

\* line 432 issued after resolveHost
SendHttpPost ==
  /\ call = "send" /\ pc = "http_resolve"
  /\ pc' = "http_post"
  /\ UNCHANGED <<call, reqPort, command, payload, dev, scan, registry, requests, earlier, invoked, result, probes, sessions>>

SendHttpSettle ==
  /\ call = "send" /\ pc = "http_post"
  /\ \E o \in HttpOutcomes(reqPort) :
       result' = IF axiosThrows(o) THEN Settle(result, "rejected", NoPort, o)
                                   ELSE Settle(result, "returned", NoPort, "http")
  /\ pc' = "done"
  /\ UNCHANGED <<call, reqPort, command, payload, dev, scan, registry, requests, earlier, invoked, probes, sessions>>

\* lines 436-484 after resolveHost: constructor, executor, connect()
SendNativeSetup ==
  /\ call = "send" /\ pc = "native_resolve"
  /\ \E outcome \in {"ctor_throws", "connect_throws", "connecting"} :
       LET s0 == NewSession("send", 0, reqPort, {"connected", "error"})
       IN CASE outcome = "ctor_throws" ->
                 /\ result' = Settle(result, "rejected", NoPort, "constructor failed")
                 /\ pc' = "done"
                 /\ UNCHANGED sessions
            [] outcome = "connect_throws" ->
                 \* the executor throws: the promise rejects, nothing is undone
                 /\ sessions' = Append(sessions, Did(s0, "connect_throw"))
                 /\ result' = Settle(result, "rejected", NoPort, "connect failed")
                 /\ pc' = "done"
            [] OTHER ->
                 /\ sessions' = Append(sessions, s0)
                 /\ pc' = "native_wait"
                 /\ UNCHANGED result
  /\ UNCHANGED <<call, reqPort, command, payload, dev, scan, registry, requests, earlier, invoked, probes>>

SendHandle(k, after) ==
  /\ sessions' = [sessions EXCEPT ![k] = after]
  /\ result' = Settle(result, SendOutcome(after).state, NoPort, SendOutcome(after).val)
  /\ pc' = "done"
  /\ UNCHANGED <<call, reqPort, command, payload, dev, scan, registry, requests, earlier, probes>>

SendTimeout(k) ==
  /\ sessions[k].owner = "send" /\ sessions[k].timer = "armed"
  /\ SendHandle(k, sendOnTimer(sessions[k]))
  /\ UNCHANGED invoked

SendError(k) ==
  /\ sessions[k].owner = "send" /\ "error" \in sessions[k].listeners
  /\ Connecting(sessions[k])
  /\ SendHandle(k, sendOnError(sessions[k]))
  /\ UNCHANGED invoked

\* the 'connected' listener up to the await of line 466; a command that is
\* not recognised, or an operation that throws at once, reaches the catch
\* block before any other callback can run
SendConnected(k) ==
  /\ sessions[k].owner = "send" /\ "connected" \in sessions[k].listeners
  /\ Connecting(sessions[k])
  /\ dev.native[sessions[k].port]
  /\ LET s1 == once(sessions[k], "connected")
         op == nativeOperation(command)
     IN CASE op = "throw" ->
               /\ SendHandle(k, sendAfterExecute(s1, "reject_Unsupported"))
               /\ UNCHANGED invoked
          [] op # "throw" /\ argumentThrows(command, payload.value) ->
               /\ SendHandle(k, sendAfterExecute(s1, "reject_TypeError"))
               /\ UNCHANGED invoked
          [] OTHER ->
               /\ invoked' = Append(invoked,
                     [service |-> op,
                      data |-> nativeArgument(command, payload.entityId, payload.value)])
               /\ \E sync \in BOOLEAN :
                    IF sync
                      THEN SendHandle(k, sendAfterExecute(Did(s1, op), "reject_op"))
                      ELSE /\ sessions' = [sessions EXCEPT ![k] = [Did(s1, op) EXCEPT !.op = "inflight"]]
                           /\ UNCHANGED <<call, reqPort, command, payload, dev, scan, registry, requests, earlier, pc, result, probes>>

\* the awaited native operation settles, whatever happened to the session
\* in the meantime
SendOperationSettles(k) ==
  /\ sessions[k].owner = "send" /\ sessions[k].op = "inflight"
  /\ \E ok \in BOOLEAN :
       SendHandle(k, sendAfterExecute(sessions[k],
                                      IF ok THEN "resolve_native" ELSE "reject_op"))
  /\ UNCHANGED invoked

\* POST /api/devices/:id/command, lines 190-205: what the route answers for
\* the outcome of sendDeviceCommand
commandResponse(r) ==
  CASE r.state = "returned" ->
         [status |-> 200, message |-> "Command executed successfully"]
    [] r.state = "rejected" /\ r.val = "Unsupported command" ->
         [status |-> 400, message |-> "Unsupported command"]
    [] OTHER ->
         [status |-> 500, message |-> "Failed to execute command"]

----------------------------------------------------------------------------

Next ==
  \/ DetectStart
  \/ DetectAfterRestRequested
  \/ DetectAfterNativeRequested
  \/ DetectAfterRestDefault
  \/ DetectAfterNativeDefault
  \/ TestStart
  \/ TestAfterNative
  \/ TestAfterSocket
  \/ \E i \in DOMAIN probes : RestRequest(i)
  \/ \E i \in DOMAIN probes : RestSettle(i)
  \/ \E i \in DOMAIN probes : NativeSetup(i)
  \/ \E k \in DOMAIN sessions : NativeTimeout(k)
  \/ \E k \in DOMAIN sessions : NativeConnected(k)
  \/ \E k \in DOMAIN sessions : NativeError(k)
  \/ \E k \in DOMAIN sessions : NativeLateConnected(k)
  \/ \E i \in DOMAIN probes : SocketSetup(i)
  \/ \E k \in DOMAIN sessions : SocketTimeout(k)
  \/ \E k \in DOMAIN sessions : SocketConnect(k)
  \/ \E k \in DOMAIN sessions : SocketError(k)
  \/ SendStart
  \/ SendHttpPost
  \/ SendHttpSettle
  \/ SendNativeSetup
  \/ \E k \in DOMAIN sessions : SendTimeout(k)
  \/ \E k \in DOMAIN sessions : SendError(k)
  \/ \E k \in DOMAIN sessions : SendConnected(k)
  \/ \E k \in DOMAIN sessions : SendOperationSettles(k)

Spec == Init /\ [][Next]_vars

\* What the event loop guarantees: a continuation that is ready runs, a
\* pending lookup or axios request settles (axios carries its own timeout),
\* an armed timer fires unless it is cleared.  Nothing obliges the device or
\* the client library to emit a signal or to complete an operation.
Scheduled ==
  \/ DetectStart
  \/ DetectAfterRestRequested
  \/ DetectAfterNativeRequested
  \/ DetectAfterRestDefault
  \/ DetectAfterNativeDefault
  \/ TestStart
  \/ TestAfterNative
  \/ TestAfterSocket
  \/ \E i \in DOMAIN probes : RestRequest(i)
  \/ \E i \in DOMAIN probes : RestSettle(i)
  \/ \E i \in DOMAIN probes : NativeSetup(i)
  \/ \E k \in DOMAIN sessions : NativeTimeout(k)
  \/ \E i \in DOMAIN probes : SocketSetup(i)
  \/ \E k \in DOMAIN sessions : SocketTimeout(k)
  \/ SendStart
  \/ SendHttpPost
  \/ SendHttpSettle
  \/ SendNativeSetup
  \/ \E k \in DOMAIN sessions : SendTimeout(k)

FairSpec == Spec /\ WF_vars(Scheduled)

----------------------------------------------------------------------------
(* scanNetworkForDevices.  Names and addresses are kept as their dot-      *)
(* separated parts: an IPv4 address is its four octets, an mDNS name its   *)
(* labels.                                                                 *)

SERVICE == <<"_esphomelib", "_tcp", "local">>
SWEEP_PORT == 6053
SweepHosts == 2
MaxResponses == 2

Record(type, name, data, target, port) ==
  [type |-> type, name |-> name, data |-> data, target |-> target, port |-> port]

PtrOf(instance) == Record("PTR", SERVICE, <<instance>> \o SERVICE, <<>>, 0)

SrvOf(instance, host, port) ==
  Record("SRV", <<instance>> \o SERVICE, <<>>, <<host, "local">>, port)

AOf(host, ip) == Record("A", <<host, "local">>, ip, <<>>, 0)

\* the responses the multicast socket can deliver
Packets ==
  {[answers |-> <<PtrOf("kitchen")>>,
    additionals |-> <<SrvOf("kitchen", "kitchen", 6053), AOf("kitchen", <<10, 0, 0, 5>>)>>],
   [answers |-> <<PtrOf("lamp")>>,
    additionals |-> <<AOf("lamp", <<10, 0, 0, 5>>), SrvOf("lamp", "lamp", 6054)>>],
   [answers |-> <<PtrOf("porch")>>,
    additionals |-> <<SrvOf("porch", "porch", 6053)>>],
   [answers |-> <<Record("PTR", <<"_http", "_tcp", "local">>, <<"nas", "_http", "_tcp", "local">>, <<>>, 0)>>,
    additionals |-> <<AOf("nas", <<10, 0, 0, 9>>)>>],
   [answers |-> <<PtrOf("attic"), PtrOf("cellar")>>,
    additionals |-> <<SrvOf("cellar", "cellar", 6053), AOf("cellar", <<10, 0, 0, 7>>)>>]}

Iface(address, family, internal) ==
  [address |-> address, family |-> family, internal |-> internal]

Loopback == Iface(<<127, 0, 0, 1>>, "IPv4", TRUE)

\* what networkInterfaces() can list, flattened in enumeration order
InterfaceLists ==
  {<<Loopback>>,
   <<Loopback, Iface(<<10, 0, 0, 2>>, "IPv4", FALSE)>>,
   <<Iface(<<10, 0, 0, 2>>, "IPv4", FALSE), Iface(<<10, 0, 0, 3>>, "IPv4", FALSE)>>,
   <<Iface(<<10, 0, 0, 2>>, "IPv4", FALSE), Iface(<<10, 0, 1, 2>>, "IPv4", FALSE)>>,
   <<Loopback, Iface(<<65152, 0, 0, 0, 0, 0, 0, 1>>, "IPv6", FALSE)>>}

\* Array.prototype.find: the first of the elements that satisfy the test
\* (given as the set of them), <<>> when there is none
Find(seq, matching) ==
  LET ks == {k \in DOMAIN seq : seq[k] \in matching}
  IN IF ks = {} THEN <<>> ELSE <<seq[CHOOSE k \in ks : \A j \in ks : k <= j]>>

\* ptr.data.replace('._esphomelib._tcp.local', ''): the service labels
\* that follow the instance name are removed
StripService(labels) ==
  IF Len(labels) > Len(SERVICE)
     /\ SubSeq(labels, Len(labels) - Len(SERVICE) + 1, Len(labels)) = SERVICE
    THEN SubSeq(labels, 1, Len(labels) - Len(SERVICE))
    ELSE labels

\* variant: the first value set for a key is kept
MapSet_FirstWins(entries, d) ==
  IF \E k \in DOMAIN entries : entries[k].ip = d.ip
    THEN entries
    ELSE Append(entries, d)

\* Map.prototype.set, the map kept as its entries in insertion order: an
\* existing key keeps its place and takes the new value
MapSet(entries, d) ==
  IF \E k \in DOMAIN entries : entries[k].ip = d.ip
    THEN [k \in DOMAIN entries |-> IF entries[k].ip = d.ip THEN d ELSE entries[k]]
    ELSE Append(entries, d)

\* the 'response' listener
handle(devices, packet) ==
  LET Among(seq) == {seq[k] : k \in DOMAIN seq}
      ptr == Find(packet.answers,
                  {a \in Among(packet.answers) : a.type = "PTR" /\ a.name = SERVICE})
  IN IF ptr = <<>> THEN devices
     ELSE LET srv == Find(packet.additionals,
                          {a \in Among(packet.additionals) :
                             a.type = "SRV" /\ a.name = ptr[1].data})
              aRec == Find(packet.additionals,
                           {a \in Among(packet.additionals) :
                              a.type = "A" /\ srv # <<>> /\ a.name = srv[1].target})
          IN IF srv # <<>> /\ aRec # <<>>
               THEN MapSet(devices, [name |-> StripService(ptr[1].data),
                                     ip |-> aRec[1].data, port |-> srv[1].port])
               ELSE devices

\* Set.prototype.add, the set kept as its members in insertion order
SetAdd(members, x) ==
  IF \E k \in DOMAIN members : members[k] = x THEN members ELSE Append(members, x)

RECURSIVE prefixesOf(_)
\* the first three octets of every external IPv4 interface address
prefixesOf(ifaces) ==
  IF ifaces = <<>> THEN <<>>
  ELSE LET rest == prefixesOf(SubSeq(ifaces, 1, Len(ifaces) - 1))
           iface == ifaces[Len(ifaces)]
       IN IF iface.family = "IPv4" /\ ~iface.internal /\ Len(iface.address) = 4
            THEN SetAdd(rest, SubSeq(iface.address, 1, 3))
            ELSE rest

\* variant: the two default prefixes are always swept as well
sweepPrefixes_AlsoDefaults(ifaces) ==
  SetAdd(SetAdd(prefixesOf(ifaces), <<192, 168, 0>>), <<192, 168, 1>>)

sweepPrefixes(ifaces) ==
  IF Len(prefixesOf(ifaces)) = 0
    THEN <<<<192, 168, 0>>, <<192, 168, 1>>>>
    ELSE prefixesOf(ifaces)

\* variant: the host numbers start at 0
sweepAddresses_FromZero(ifaces) ==
  LET ps == sweepPrefixes(ifaces)
  IN [n \in 1..(Len(ps) * SweepHosts) |->
        Append(ps[((n - 1) \div SweepHosts) + 1], (n - 1) % SweepHosts)]

\* Array.from(prefixes).flatMap(base => hosts 1..SweepHosts of base)
sweepAddresses(ifaces) ==
  LET ps == sweepPrefixes(ifaces)
  IN [n \in 1..(Len(ps) * SweepHosts) |->
        Append(ps[((n - 1) \div SweepHosts) + 1], ((n - 1) % SweepHosts) + 1)]

\* the positions of `addresses` whose address is not yet in `checked`
\* when the position is reached
Unchecked(addresses) ==
  {n \in DOMAIN addresses : \A m \in 1..(n - 1) : addresses[m] # addresses[n]}

\* one connection per address that is not yet in `checked`
sweepAttempts(addresses) ==
  [i \in 1..Cardinality(Unchecked(addresses)) |->
     [ip |-> addresses[CHOOSE n \in Unchecked(addresses) :
                         Cardinality({m \in Unchecked(addresses) : m <= n}) = i],
      port |-> SWEEP_PORT, socket |-> "connecting", resolved |-> FALSE]]

ScanIdle(ifaces) ==
  [pc |-> "start", ifaces |-> ifaces, setup |-> "none", socket |-> "none",
   listener |-> FALSE, devices |-> <<>>, received |-> 0, heard |-> <<>>,
   multicast |-> <<>>,
   results |-> <<>>, sweeps |-> 0, attempts |-> <<>>, outcome |-> "pending"]

sweepNeeded_Always(results) == TRUE

\* line 379: the scan returns when the multicast phase left a result
sweepNeeded(results) == ~(Len(results) > 0)

allResolved_Any(attempts) == \E k \in DOMAIN attempts : attempts[k].resolved

\* Promise.all over the attempts
allResolved(attempts) == \A k \in DOMAIN attempts : attempts[k].resolved

\* lines 379-424, reached with the results of the multicast phase
afterMulticast(s, results) ==
  IF sweepNeeded(results)
    THEN [s EXCEPT !.multicast = results, !.results = results, !.pc = "sweep",
                   !.sweeps = @ + 1,
                   !.attempts = @ \o sweepAttempts(sweepAddresses(s.ifaces))]
    ELSE [s EXCEPT !.multicast = results, !.results = results, !.pc = "done",
                   !.outcome = "returned"]

ScanUnchanged ==
  UNCHANGED <<call, reqPort, command, dev, pc, result, probes, sessions, payload,
              invoked, earlier, registry, requests>>

\* lines 346-370, and 375-424 when mdns() or query() throws
ScanStart ==
  /\ call = "scan" /\ scan.pc = "start"
  /\ \E setup \in {"mdns_throws", "query_throws", "listening"} :
       scan' = CASE setup = "mdns_throws" ->
                      afterMulticast([scan EXCEPT !.setup = setup], <<>>)
                 [] setup = "query_throws" ->
                      afterMulticast([scan EXCEPT !.setup = setup, !.socket = "open",
                                                  !.listener = TRUE], <<>>)
                 [] OTHER ->
                      [scan EXCEPT !.setup = setup, !.socket = "open",
                                   !.listener = TRUE, !.pc = "window"]
  /\ ScanUnchanged

\* a response reaches the registered listener during the window.  (A
\* listener that a failed query left registered can run later as well; it
\* then writes to `devices` only, which is not read again.)
ScanResponse ==
  /\ call = "scan" /\ scan.pc = "window"
  /\ scan.listener /\ scan.socket = "open"
  /\ scan.received < MaxResponses
  /\ \E packet \in Packets :
       scan' = [scan EXCEPT !.devices = handle(@, packet), !.received = @ + 1,
                            !.heard = Append(@, packet)]
  /\ ScanUnchanged

\* lines 371-374 when the 5 s window closes, then 379-424
ScanWindowEnd ==
  /\ call = "scan" /\ scan.pc = "window"
  /\ scan' = afterMulticast([scan EXCEPT !.listener = FALSE, !.socket = "destroyed"],
                            scan.devices)
  /\ ScanUnchanged

Attempt(k) == scan.attempts[k]

\* lines 411-415: the connect callback
SweepConnect(k) ==
  /\ call = "scan" /\ Attempt(k).socket = "connecting"
  /\ scan' = [scan EXCEPT !.results = Append(@, [name |-> Attempt(k).ip, ip |-> Attempt(k).ip,
                                                 port |-> SWEEP_PORT]),
                          !.attempts[k].socket = "ended",
                          !.attempts[k].resolved = TRUE]
  /\ ScanUnchanged

SweepError_Reports(k) ==
  /\ call = "scan" /\ Attempt(k).socket = "connecting"
  /\ scan' = [scan EXCEPT !.results = Append(@, [name |-> Attempt(k).ip, ip |-> Attempt(k).ip,
                                                 port |-> SWEEP_PORT]),
                          !.attempts[k].socket = "failed",
                          !.attempts[k].resolved = TRUE]
  /\ ScanUnchanged

\* line 416.  (An event on a socket whose attempt has already resolved
\* calls resolve again, which changes nothing; it is not a step here.)
SweepError(k) ==
  /\ call = "scan" /\ Attempt(k).socket = "connecting"
  /\ scan' = [scan EXCEPT !.attempts[k].socket = "failed",
                          !.attempts[k].resolved = TRUE]
  /\ ScanUnchanged

\* lines 417-420: 500 ms without activity on the socket
SweepTimeout(k) ==
  /\ call = "scan" /\ Attempt(k).socket = "connecting"
  /\ scan' = [scan EXCEPT !.attempts[k].socket = "destroyed",
                          !.attempts[k].resolved = TRUE]
  /\ ScanUnchanged

\* line 426, once Promise.all has resolved
ScanSweepDone ==
  /\ call = "scan" /\ scan.pc = "sweep"
  /\ allResolved(scan.attempts)
  /\ scan' = [scan EXCEPT !.pc = "done", !.outcome = "returned"]
  /\ ScanUnchanged

ScanInit ==
  /\ call = "scan"
  /\ reqPort = HTTP_PORT
  /\ command = "none"
  /\ dev \in {d \in Devices : \A p \in Ports : d.http[p] = "none" /\ ~d.native[p]}
  /\ pc = "start"
  /\ result = Pending
  /\ probes = <<>>
  /\ sessions = <<>>
  /\ payload = NoPayload
  /\ invoked = <<>>
  /\ earlier = <<>>
  /\ registry = EmptyRegistry
  /\ requests = <<>>
  /\ scan \in {ScanIdle(ifaces) : ifaces \in InterfaceLists}

ScanNext ==
  \/ ScanStart
  \/ ScanResponse
  \/ ScanWindowEnd
  \/ \E k \in DOMAIN scan.attempts : SweepConnect(k)
  \/ \E k \in DOMAIN scan.attempts : SweepError(k)
  \/ \E k \in DOMAIN scan.attempts : SweepTimeout(k)
  \/ ScanSweepDone

ScanSpec == ScanInit /\ [][ScanNext]_vars

\* The event loop runs the function's synchronous part, the 5 s timer and
\* the continuation of Promise.all; a socket that neither connects nor
\* fails emits 'timeout' after 500 ms.
ScanScheduled ==
  \/ ScanStart
  \/ ScanWindowEnd
  \/ \E k \in DOMAIN scan.attempts : SweepTimeout(k)
  \/ ScanSweepDone

\* a scan in whose window no response arrives: the sweep is entered from
\* such a window or from a failed setup
QuietScanNext ==
  \/ ScanStart
  \/ ScanWindowEnd
  \/ \E k \in DOMAIN scan.attempts : SweepConnect(k)
  \/ \E k \in DOMAIN scan.attempts : SweepError(k)
  \/ \E k \in DOMAIN scan.attempts : SweepTimeout(k)
  \/ ScanSweepDone

FairScanSpec == ScanInit /\ [][QuietScanNext]_vars /\ WF_vars(ScanScheduled)

----------------------------------------------------------------------------
(* Concurrent calls: GET /api/devices starts one testDeviceConnection per  *)
(* stored device without awaiting any of them, and a command request is    *)
(* served in the meantime.  The refreshed devices are the endpoints of     *)
(* RefreshTargets; `pc` and `result` are those of the dispatch.            *)

RefreshTargets == <<NATIVE_PORT, OtherPort>>

RefreshCalls == 1..Len(RefreshTargets)

\* the socket probe that refresh call c started, if any
SocketProbeOf(c) ==
  {i \in DOMAIN probes : probes[i].kind = "socket" /\ probes[i].port = RefreshTargets[c]}

\* devices.map has run every testDeviceConnection up to its first await
ConcurrentInit ==
  /\ call = "send"
  /\ reqPort = NATIVE_PORT
  /\ command = "toggle"
  /\ dev \in {d \in Devices : \A p \in Ports : d.http[p] = "none" /\ d.native[p]}
  /\ pc = "start"
  /\ result = Pending
  /\ probes = [c \in RefreshCalls |-> NewProbe("native", RefreshTargets[c])]
  /\ sessions = <<>>
  /\ payload \in {pl \in Payloads : pl.value.present /\ ~pl.value.hasColor
                                       /\ ~Number(pl.entityId).nan}
  /\ invoked = <<>>
  /\ scan = NoScan
  /\ earlier = <<>>
  /\ registry = EmptyRegistry
  /\ requests = <<>>

\* testDeviceConnection of refresh call c resumes after checkNative
RefreshAfterNative(c) ==
  /\ probes[c].verdict = "false" /\ SocketProbeOf(c) = {}
  /\ StartProbe("socket", RefreshTargets[c])
  /\ UNCHANGED <<call, reqPort, command, payload, dev, scan, registry, requests, earlier, invoked, pc, result,
                 sessions>>

ConcurrentNext ==
  \/ \E c \in RefreshCalls : RefreshAfterNative(c)
  \/ \E i \in DOMAIN probes : NativeSetup(i)
  \/ \E k \in DOMAIN sessions : NativeTimeout(k)
  \/ \E k \in DOMAIN sessions : NativeConnected(k)
  \/ \E k \in DOMAIN sessions : NativeError(k)
  \/ \E k \in DOMAIN sessions : NativeLateConnected(k)
  \/ \E i \in DOMAIN probes : SocketSetup(i)
  \/ \E k \in DOMAIN sessions : SocketTimeout(k)
  \/ \E k \in DOMAIN sessions : SocketConnect(k)
  \/ \E k \in DOMAIN sessions : SocketError(k)
  \/ SendStart
  \/ SendNativeSetup
  \/ \E k \in DOMAIN sessions : SendTimeout(k)
  \/ \E k \in DOMAIN sessions : SendError(k)
  \/ \E k \in DOMAIN sessions : SendConnected(k)
  \/ \E k \in DOMAIN sessions : SendOperationSettles(k)

ConcurrentSpec == ConcurrentInit /\ [][ConcurrentNext]_vars

----------------------------------------------------------------------------
(* MemStorage (storage.ts).  The devices map is kept as its values in      *)
(* insertion order; of a device only the fields the routes act on are      *)
(* kept: id, ip, port, isOnline, and lastSeen, which is 0 for null and     *)
(* otherwise the number of the request whose handler wrote it.             *)

IdsOf(reg) == {reg.devices[n].id : n \in DOMAIN reg.devices}

\* Map.get: <<>> stands for undefined
getDevice(reg, id) ==
  LET ns == {n \in DOMAIN reg.devices : reg.devices[n].id = id}
  IN IF ns = {} THEN <<>> ELSE <<reg.devices[CHOOSE n \in ns : TRUE]>>

\* Array.from(values()).find(device => device.ip === ip)
getDeviceByIp(reg, ip) ==
  LET ns == {n \in DOMAIN reg.devices : reg.devices[n].ip = ip}
  IN IF ns = {} THEN <<>> ELSE <<reg.devices[CHOOSE n \in ns : \A m \in ns : n <= m]>>

\* variant: the id is the number of stored devices plus one
createDevice_CountsDevices(reg, ip, port) ==
  [devices |-> Append(reg.devices,
                      [id |-> Len(reg.devices) + 1, ip |-> ip,
                       port |-> IF port = 0 THEN 80 ELSE port,
                       isOnline |-> FALSE, lastSeen |-> 0]),
   currentId |-> reg.currentId + 1]

\* createDevice: the registry after the call; the device made is the last
createDevice(reg, ip, port) ==
  [devices |-> Append(reg.devices,
                      [id |-> reg.currentId, ip |-> ip,
                       port |-> IF port = 0 THEN 80 ELSE port,
                       isOnline |-> FALSE, lastSeen |-> 0]),
   currentId |-> reg.currentId + 1]

\* the fields an update request can carry (updateDeviceSchema is partial)
NoUpdates == [has |-> {}, ip |-> "", port |-> 0]

\* { ...device, ...updates }
merge(device, updates) ==
  [device EXCEPT !.ip = IF "ip" \in updates.has THEN updates.ip ELSE @,
                 !.port = IF "port" \in updates.has THEN updates.port ELSE @]

\* updateDevice: an unknown id leaves the registry as it is
updateDevice(reg, id, updates) ==
  [reg EXCEPT !.devices =
     [n \in DOMAIN reg.devices |->
        IF reg.devices[n].id = id THEN merge(reg.devices[n], updates) ELSE reg.devices[n]]]

\* Map.delete
deleteDevice(reg, id) ==
  [reg EXCEPT !.devices =
     LET keep == {n \in DOMAIN reg.devices : reg.devices[n].id # id}
     IN [i \in 1..Cardinality(keep) |->
           reg.devices[CHOOSE n \in keep : Cardinality({m \in keep : m <= n}) = i]]]

\* updateDeviceStatus: the first device with the address is marked; now
\* stands for new Date()
updateDeviceStatus(reg, ip, isOnline, now) ==
  IF getDeviceByIp(reg, ip) = <<>> THEN reg
  ELSE [reg EXCEPT !.devices =
          [n \in DOMAIN reg.devices |->
             IF reg.devices[n].id = getDeviceByIp(reg, ip)[1].id
               THEN [reg.devices[n] EXCEPT !.isOnline = isOnline, !.lastSeen = now]
               ELSE reg.devices[n]]]

----------------------------------------------------------------------------
(* The device routes (routes.ts lines 27-228) over the shared MemStorage.  *)
(* A handler runs from the arrival of its request to its first wait on the *)
(* network, and from each such wait to the next; MemStorage's methods      *)
(* resolve at once, so a call to one does not let another handler in.      *)

MaxRequests == 3

Addresses == {"192.168.1.10", "192.168.1.11", "192.168.1.12"}

\* the ports each address answers on: a REST device, a native-API device
\* and an address nothing answers at
Network ==
  [a \in Addresses |->
     CASE a = "192.168.1.10" -> {HTTP_PORT}
       [] a = "192.168.1.11" -> {NATIVE_PORT}
       [] OTHER -> {}]

\* what detectDevicePort resolves with for this network: the requested port
\* first, then the REST default, then the native default
detectedPort(ip, port) ==
  IF port \in Network[ip] THEN port
  ELSE IF port # HTTP_PORT /\ HTTP_PORT \in Network[ip] THEN HTTP_PORT
  ELSE IF port # NATIVE_PORT /\ NATIVE_PORT \in Network[ip] THEN NATIVE_PORT
  ELSE NoPort

\* what testDeviceConnection resolves with for this network
reachable(ip, port) == port \in Network[ip]

\* the bodies of the update requests: a new port, or another device's address
UpdateBodies ==
  { [has |-> {"port"}, ip |-> "", port |-> NATIVE_PORT],
    [has |-> {"port"}, ip |-> "", port |-> HTTP_PORT],
    [has |-> {"ip"}, ip |-> "192.168.1.10", port |-> 0] }

\* the ids a request can name: those handed out so far and the next one
TargetIds == 1..registry.currentId

NoResponse == [status |-> 0, message |-> ""]
NoTarget == [ip |-> "", port |-> NoPort]

\* a request as it arrives; id, ip, port, updates and valid are what it carries
Request(kind, id, ip, port, updates, valid) ==
  [kind |-> kind, pc |-> "arrived", id |-> id, ip |-> ip, port |-> port,
   updates |-> updates, valid |-> valid, target |-> NoTarget, pending |-> <<>>,
   response |-> NoResponse, dispatched |-> FALSE, probed |-> FALSE]

\* res.status(status).json({ message })
Answer(r, status, message) ==
  [r EXCEPT !.pc = "done", !.response = [status |-> status, message |-> message]]

Waiting(kind, at) ==
  {n \in DOMAIN requests : requests[n].kind = kind /\ requests[n].pc = at}

RegistryUnchanged ==
  UNCHANGED <<call, reqPort, command, dev, pc, result, probes, sessions, payload,
              invoked, scan, earlier>>

\* POST /api/devices, lines 66-78: the existence check, then detection begins
AddArrive ==
  /\ Len(requests) < MaxRequests
  /\ \E ip \in Addresses :
       LET r == Request("add", 0, ip, HTTP_PORT, NoUpdates, TRUE)
       IN requests' = Append(requests,
            IF getDeviceByIp(registry, ip) # <<>>
              THEN Answer(r, 400, "Device with this IP already exists")
              ELSE [r EXCEPT !.pc = "detecting"])
  /\ UNCHANGED registry
  /\ RegistryUnchanged

\* variant: the device is stored with the port the caller asked for
AddDetected_StoresRequested ==
  /\ \E n \in Waiting("add", "detecting") :
       LET r == requests[n]
           found == detectedPort(r.ip, r.port)
       IN IF found = NoPort
            THEN /\ requests' = [requests EXCEPT ![n] = Answer(r, 400, "Device is not reachable")]
                 /\ UNCHANGED registry
            ELSE /\ registry' = createDevice(registry, r.ip, r.port)
                 /\ requests' = [requests EXCEPT ![n] =
                      [r EXCEPT !.pc = "testing", !.id = registry.currentId,
                                !.target = [ip |-> r.ip, port |-> r.port]]]
  /\ RegistryUnchanged

\* POST /api/devices, lines 80-86: detection has resolved
AddDetected ==
  /\ \E n \in Waiting("add", "detecting") :
       LET r == requests[n]
           found == detectedPort(r.ip, r.port)
           made == createDevice(registry, r.ip, found)
       IN IF found = NoPort
            THEN /\ requests' = [requests EXCEPT ![n] = Answer(r, 400, "Device is not reachable")]
                 /\ UNCHANGED registry
            ELSE /\ registry' = made
                 /\ requests' = [requests EXCEPT ![n] =
                      [r EXCEPT !.pc = "testing", !.id = registry.currentId,
                                !.target = [ip |-> r.ip,
                                            port |-> made.devices[Len(made.devices)].port]]]
  /\ RegistryUnchanged

\* POST /api/devices, lines 86-89: the connection test has resolved
AddTested ==
  /\ \E n \in Waiting("add", "testing") :
       LET r == requests[n]
       IN /\ registry' = updateDeviceStatus(registry, r.target.ip,
                                            reachable(r.target.ip, r.target.port), n)
          /\ requests' = [requests EXCEPT ![n] = Answer(r, 201, "")]
  /\ RegistryUnchanged

\* GET /api/devices, lines 29-38: one connection test per stored device begins
ListArrive ==
  /\ Len(requests) < MaxRequests
  /\ LET r == Request("list", 0, "", NoPort, NoUpdates, TRUE)
         tests == [n \in DOMAIN registry.devices |->
                     [ip |-> registry.devices[n].ip, port |-> registry.devices[n].port,
                      done |-> FALSE]]
     IN requests' = Append(requests,
          IF tests = <<>> THEN Answer(r, 200, "")
          ELSE [r EXCEPT !.pc = "refreshing", !.pending = tests])
  /\ UNCHANGED registry
  /\ RegistryUnchanged

\* GET /api/devices, lines 39-43: one of the tests has resolved; the last
\* one to resolve lets the handler answer
ListTested ==
  /\ \E n \in Waiting("list", "refreshing") :
       \E j \in DOMAIN requests[n].pending :
         LET r == requests[n]
             t == r.pending[j]
             left == {k \in DOMAIN r.pending : ~r.pending[k].done} \ {j}
             marked == [r EXCEPT !.pending[j].done = TRUE]
         IN /\ ~t.done
            /\ registry' = updateDeviceStatus(registry, t.ip, reachable(t.ip, t.port), n)
            /\ requests' = [requests EXCEPT ![n] =
                 IF left = {} THEN Answer(marked, 200, "") ELSE marked]
  /\ RegistryUnchanged

\* PUT /api/devices/:id, lines 101-113: the merge, then the test begins
UpdateArrive ==
  /\ Len(requests) < MaxRequests
  /\ \E id \in TargetIds, u \in UpdateBodies :
       LET r == Request("update", id, "", NoPort, u, TRUE)
           after == updateDevice(registry, id, u)
       IN IF getDevice(registry, id) = <<>>
            THEN /\ requests' = Append(requests, Answer(r, 404, "Device not found"))
                 /\ UNCHANGED registry
            ELSE /\ registry' = after
                 /\ requests' = Append(requests,
                      [r EXCEPT !.pc = "testing",
                                !.target = [ip |-> getDevice(after, id)[1].ip,
                                            port |-> getDevice(after, id)[1].port]])
  /\ RegistryUnchanged

\* PUT /api/devices/:id, lines 109-116: the connection test has resolved
UpdateTested ==
  /\ \E n \in Waiting("update", "testing") :
       LET r == requests[n]
       IN /\ registry' = updateDeviceStatus(registry, r.target.ip,
                                            reachable(r.target.ip, r.target.port), n)
          /\ requests' = [requests EXCEPT ![n] = Answer(r, 200, "")]
  /\ RegistryUnchanged

\* DELETE /api/devices/:id, lines 128-133
DeleteArrive ==
  /\ Len(requests) < MaxRequests
  /\ \E id \in TargetIds :
       LET r == Request("delete", id, "", NoPort, NoUpdates, TRUE)
       IN IF getDevice(registry, id) = <<>>
            THEN /\ requests' = Append(requests, Answer(r, 404, "Device not found"))
                 /\ UNCHANGED registry
            ELSE /\ registry' = deleteDevice(registry, id)
                 /\ requests' = Append(requests, Answer(r, 200, "Device deleted successfully"))
  /\ RegistryUnchanged

\* what sendDeviceCommand can settle with, as the command route tells them apart
SendOutcomes ==
  { [state |-> "returned", port |-> NoPort, val |-> ""],
    [state |-> "rejected", port |-> NoPort, val |-> "Unsupported command"],
    [state |-> "rejected", port |-> NoPort, val |-> "error"] }

\* variant: the route does not look at isOnline
CommandArrive_IgnoresOffline ==
  /\ Len(requests) < MaxRequests
  /\ \E id \in TargetIds, valid \in BOOLEAN :
       LET r == Request("command", id, "", NoPort, NoUpdates, valid)
           device == getDevice(registry, id)
       IN requests' = Append(requests,
            IF ~valid THEN Answer(r, 400, "Invalid command data")
            ELSE IF device = <<>> THEN Answer(r, 404, "Device not found")
            ELSE [r EXCEPT !.pc = "dispatching", !.dispatched = TRUE,
                           !.target = [ip |-> device[1].ip, port |-> device[1].port]])
  /\ UNCHANGED registry
  /\ RegistryUnchanged

\* POST /api/devices/:id/command, lines 177-190: the body is parsed before
\* the device is looked up
CommandArrive ==
  /\ Len(requests) < MaxRequests
  /\ \E id \in TargetIds, valid \in BOOLEAN :
       LET r == Request("command", id, "", NoPort, NoUpdates, valid)
           device == getDevice(registry, id)
       IN requests' = Append(requests,
            IF ~valid THEN Answer(r, 400, "Invalid command data")
            ELSE IF device = <<>> THEN Answer(r, 404, "Device not found")
            ELSE IF ~device[1].isOnline THEN Answer(r, 400, "Device is offline")
            ELSE [r EXCEPT !.pc = "dispatching", !.dispatched = TRUE,
                           !.target = [ip |-> device[1].ip, port |-> device[1].port]])
  /\ UNCHANGED registry
  /\ RegistryUnchanged

\* POST /api/devices/:id/command, lines 190-205: sendDeviceCommand has settled
CommandSettled ==
  /\ \E n \in Waiting("command", "dispatching") :
       \E outcome \in SendOutcomes :
         requests' = [requests EXCEPT ![n] =
           Answer(requests[n], commandResponse(outcome).status,
                  commandResponse(outcome).message)]
  /\ UNCHANGED registry
  /\ RegistryUnchanged

\* GET /api/devices/:id/status, lines 211-223
StatusArrive ==
  /\ Len(requests) < MaxRequests
  /\ \E id \in TargetIds :
       LET r == Request("status", id, "", NoPort, NoUpdates, TRUE)
           device == getDevice(registry, id)
       IN requests' = Append(requests,
            IF device = <<>> THEN Answer(r, 404, "Device not found")
            ELSE IF ~device[1].isOnline THEN Answer(r, 200, "online: false")
            ELSE [r EXCEPT !.pc = "probing", !.probed = TRUE,
                           !.target = [ip |-> device[1].ip, port |-> device[1].port]])
  /\ UNCHANGED registry
  /\ RegistryUnchanged

\* GET /api/devices/:id/status, lines 223-227: getDeviceStatus has settled
StatusSettled ==
  /\ \E n \in Waiting("status", "probing") :
       \E threw \in BOOLEAN :
         requests' = [requests EXCEPT ![n] =
           IF threw THEN Answer(requests[n], 500, "Failed to get device status")
           ELSE Answer(requests[n], 200, "status")]
  /\ UNCHANGED registry
  /\ RegistryUnchanged

RegistryInit ==
  /\ call = "routes"
  /\ reqPort = HTTP_PORT
  /\ command = "none"
  /\ dev \in {d \in Devices : \A p \in Ports : d.http[p] = "none" /\ ~d.native[p]}
  /\ pc = "idle"
  /\ result = Pending
  /\ probes = <<>>
  /\ sessions = <<>>
  /\ payload = NoPayload
  /\ invoked = <<>>
  /\ earlier = <<>>
  /\ scan = NoScan
  /\ registry = EmptyRegistry
  /\ requests = <<>>

RegistryNext ==
  \/ AddArrive
  \/ AddDetected
  \/ AddTested
  \/ ListArrive
  \/ ListTested
  \/ UpdateArrive
  \/ UpdateTested
  \/ DeleteArrive
  \/ CommandArrive
  \/ CommandSettled
  \/ StatusArrive
  \/ StatusSettled

RegistrySpec == RegistryInit /\ [][RegistryNext]_vars

----------------------------------------------------------------------------
(* detectDevicePort called again for the same address and port.  The       *)
(* function keeps nothing between calls; the clients of the earlier call   *)
(* remain in `sessions` and its probes in `probes`.                        *)

DetectAgain ==
  /\ call = "detect" /\ pc = "done"
  /\ earlier = <<>>
  /\ earlier' = Append(earlier, [state |-> result.state, port |-> result.port,
                                 upto |-> Len(probes)])
  /\ pc' = "start"
  /\ result' = Pending
  /\ UNCHANGED <<call, reqPort, command, payload, dev, scan, registry, requests, invoked, probes, sessions>>

\* an HTTP server that answers an error status is told from a silent port
\* by no step of the detector, so the repeated call is run against devices
\* without one, which serve HTTP on one port at most
RepeatInit ==
  /\ Init
  /\ call = "detect"
  /\ \A p \in Ports : dev.http[p] # "bad"
  /\ Cardinality({p \in Ports : dev.http[p] = "ok"}) <= 1

RepeatNext ==
  \/ DetectStart
  \/ DetectAfterRestRequested
  \/ DetectAfterNativeRequested
  \/ DetectAfterRestDefault
  \/ DetectAfterNativeDefault
  \/ DetectAgain
  \/ \E i \in DOMAIN probes : RestRequest(i)
  \/ \E i \in DOMAIN probes : RestSettle(i)
  \/ \E i \in DOMAIN probes : NativeSetup(i)
  \/ \E k \in DOMAIN sessions : NativeTimeout(k)
  \/ \E k \in DOMAIN sessions : NativeConnected(k)
  \/ \E k \in DOMAIN sessions : NativeError(k)
  \/ \E k \in DOMAIN sessions : NativeLateConnected(k)

RepeatSpec == RepeatInit /\ [][RepeatNext]_vars

----------------------------------------------------------------------------
(* Properties of detectDevicePort *)

NativeSessionsOf(owner) == {k \in DOMAIN sessions : sessions[k].owner = owner}

Teardowns(s) == Count(s.hist, "removeAllListeners")

\* the fallback sequence the detector is specified to follow
FallbackPlan(p) ==
  <<[kind |-> "rest", port |-> p], [kind |-> "native", port |-> p]>>
    \o (IF p # 80 THEN <<[kind |-> "rest", port |-> 80]>> ELSE <<>>)
    \o (IF p # 6053 THEN <<[kind |-> "native", port |-> 6053]>> ELSE <<>>)

\* C1: the probes of one detectDevicePort call are started in the order
\* HTTP(requested), native(requested), HTTP(80) unless the requested port is
\* 80, native(6053) unless it is 6053; each starts only after the previous
\* one returned false; at most one is in flight; the call returns the port
\* of the first probe that succeeded.
C1_SequentialFallbackOrder ==
  call = "detect" =>
    /\ Len(probes) <= Len(FallbackPlan(reqPort))
    /\ \A i \in DOMAIN probes :
         /\ probes[i].kind = FallbackPlan(reqPort)[i].kind
         /\ probes[i].port = FallbackPlan(reqPort)[i].port
         /\ i > 1 => probes[i - 1].verdict = "false"
    /\ Cardinality(InFlight) <= 1
    /\ (result.state = "returned" /\ result.port # NoPort) =>
         /\ probes[Len(probes)].verdict = "true"
         /\ result.port = probes[Len(probes)].port

C1_Witness ==
  /\ call = "detect" /\ reqPort = OtherPort
  /\ Len(probes) = 4
  /\ result.state = "returned" /\ result.port = NATIVE_PORT

\* C2: when the HTTP probe on the requested port succeeds the call returns
\* that port with no other probe started, and no probe is ever started
\* after a probe of the call has succeeded.
C2_ShortCircuit ==
  call = "detect" =>
    /\ \A i \in DOMAIN probes : probes[i].verdict = "true" => i = Len(probes)
    /\ (Len(probes) >= 1 /\ probes[1].verdict = "true" /\ pc = "done") =>
         /\ result.state = "returned" /\ result.port = reqPort
         /\ Len(probes) = 1 /\ sessions = <<>>

C2_Witness ==
  /\ call = "detect" /\ pc = "done"
  /\ Len(probes) = 1 /\ probes[1].verdict = "true"
  /\ dev.native[reqPort] /\ dev.http[HTTP_PORT] = "ok" /\ reqPort # HTTP_PORT
  /\ result.port = reqPort

CandidatePorts == {reqPort, HTTP_PORT, NATIVE_PORT}

Unreachable == \A p \in CandidatePorts : dev.http[p] = "none" /\ ~dev.native[p]

\* C3: for an address nothing answers on any candidate port, no probe
\* succeeds and a detectDevicePort call that finishes returns null; the call
\* never rejects, and it returns null whenever all its probes returned false,
\* whether they failed by refusal, error signal or timeout.
C3_UnreachableIsNull ==
  call = "detect" =>
    /\ result.state # "rejected"
    /\ Unreachable => \A i \in DOMAIN probes : probes[i].verdict # "true"
    /\ (Unreachable /\ pc = "done") =>
         result.state = "returned" /\ result.port = NoPort
    /\ (pc = "done" /\ \A i \in DOMAIN probes : probes[i].verdict = "false") =>
         result.state = "returned" /\ result.port = NoPort

C3_Witness ==
  /\ call = "detect" /\ Unreachable /\ pc = "done"
  /\ result.state = "returned" /\ result.port = NoPort
  /\ Len(probes) = 4
  /\ probes[1].how = "refused" /\ probes[3].how = "timeout"
  /\ \E k \in NativeSessionsOf("checkNative") : sessions[k].timer = "fired"
  /\ \E k \in NativeSessionsOf("checkNative") : sessions[k].timer = "cleared"

\* C4: a port returned because an HTTP probe succeeded is 80 and a port
\* returned because a native probe succeeded is not 80, so the protocol
\* sendDeviceCommand derives from the port is the one the winning probe spoke.
C4_PortProtocolConvention ==
  (call = "detect" /\ result.state = "returned" /\ result.port # NoPort) =>
    LET winner == probes[Len(probes)]
    IN /\ winner.kind = "rest" => result.port = 80
       /\ winner.kind = "native" => result.port # 80
       /\ DispatchProtocol(result.port) = (IF winner.kind = "rest" THEN "http" ELSE "native")

----------------------------------------------------------------------------
(* Properties of the probes and of the dispatcher's session *)

Resolutions(s) == {k \in DOMAIN s.hist : s.hist[k] \in {"resolve_true", "resolve_false"}}

\* C5: a session opened by checkNative is torn down exactly once:
\* removeAllListeners and disconnect are called at most once each and
\* together, once the probe has its verdict they have been called exactly
\* once, they precede every resolve of the probe, and a session not yet
\* torn down still has its timer armed.
C5_NativeProbeTeardownOnce ==
  \A k \in NativeSessionsOf("checkNative") :
    LET s == sessions[k]
    IN /\ Teardowns(s) <= 1
       /\ Count(s.hist, "disconnect") = Teardowns(s)
       /\ probes[s.probe].verdict # "pending" => Teardowns(s) = 1
       /\ \A r \in Resolutions(s) :
            /\ First(s.hist, "removeAllListeners") \in 1 .. (r - 1)
            /\ First(s.hist, "disconnect") \in 1 .. (r - 1)
       /\ Teardowns(s) = 0 => s.timer = "armed" /\ s.open
       /\ Teardowns(s) = 1 => s.timer # "armed" /\ s.listeners = {} /\ ~s.open

C5_Witness ==
  /\ \E k \in NativeSessionsOf("checkNative") :
       sessions[k].timer = "fired" /\ Teardowns(sessions[k]) = 1
  /\ \E k \in NativeSessionsOf("checkNative") :
       Count(sessions[k].hist, "connect_throw") = 1 /\ Teardowns(sessions[k]) = 1

\* C6: a session opened by the native path of sendDeviceCommand is torn
\* down exactly once under every interleaving of timer, 'connected',
\* 'error' and the completion of the native operation.
C6_DispatchTeardownOnce ==
  \A k \in NativeSessionsOf("send") :
    LET s == sessions[k]
    IN /\ Teardowns(s) <= 1
       /\ Count(s.hist, "disconnect") <= 1
       /\ (s.timer # "armed" /\ s.op # "inflight") => Teardowns(s) = 1

\* C7: when the native path of sendDeviceCommand has returned or raised,
\* the session it opened has no listener left and its transport is closed.
C7_DispatchOutcomeAfterTeardown ==
  (call = "send" /\ result.state # "pending") =>
    \A k \in NativeSessionsOf("send") :
      sessions[k].listeners = {} /\ ~sessions[k].open

FailureModes == {"ctor_throws", "connect_throws", "refused", "timeout", "non2xx"}

\* C8: no probe rejects, and a probe that met a failure (constructor or
\* connect() throwing, refusal, error status, timeout) has resolved to false.
C8_ProbesResolveFalse ==
  \A i \in DOMAIN probes :
    /\ probes[i].verdict # "rejected"
    /\ probes[i].how \in FailureModes => probes[i].verdict = "false"
    /\ probes[i].pc # "stuck"

MaxProbes == 4

\* C9: every probe that was started eventually has a verdict.
C9_EveryProbeSettles ==
  \A n \in 1 .. MaxProbes :
    [](Len(probes) >= n => <>(Len(probes) >= n /\ probes[n].verdict # "pending"))

\* C10: checkNative answers true only when the 'connected' listener ran
\* while the timer was still armed and nothing had resolved the probe
\* before; once the timer fired or the 'error' listener ran the verdict is
\* false, also when a 'connected' signal arrives afterwards.
C10_TrueOnlyOnConnectedBeforeTimeout ==
  \A k \in NativeSessionsOf("checkNative") :
    LET s == sessions[k]
        v == probes[s.probe].verdict
    IN /\ v = "true" =>
            /\ s.timer = "cleared"
            /\ Count(s.hist, "resolve_true") = 1
            /\ Count(s.hist, "resolve_false") = 0
            /\ First(s.hist, "clearTimeout") < First(s.hist, "resolve_true")
       /\ s.timer = "fired" => v = "false"
       /\ Count(s.hist, "resolve_false") > 0 => v = "false"
       /\ Count(s.hist, "late_connected") > 0 => v = VerdictOf([s EXCEPT !.hist =
            SubSeq(s.hist, 1, First(s.hist, "late_connected") - 1)])

C10_Witness ==
  \E k \in NativeSessionsOf("checkNative") :
    /\ sessions[k].timer = "fired"
    /\ Count(sessions[k].hist, "late_connected") > 0
    /\ probes[sessions[k].probe].verdict = "false"

----------------------------------------------------------------------------
(* Properties of checkRest and of unrecognised commands *)

\* C11: checkRest answers true for every HTTP response of the device,
\* whatever its status (2xx, 404, 500), and false only when no response
\* came (no connection, timeout).
C11_AnyResponseIsReachable ==
  \A i \in DOMAIN probes :
    (probes[i].kind = "rest" /\ probes[i].verdict # "pending") =>
      (probes[i].verdict = "true" <=> probes[i].how \in {"2xx", "non2xx"})

\* C17: a dispatch of a command name outside the six recognised ones ends
\* in the 'Unsupported command' failure, on the HTTP port as on a native
\* port, whether the session connects, errs or times out.
C17_UnknownCommandUnsupported ==
  (call = "send" /\ command \notin KnownCommands /\ result.state # "pending") =>
    result.state = "rejected" /\ result.val = "Unsupported command"

----------------------------------------------------------------------------
(* Properties of the native dispatch *)

\* the mapping table of the specification
MappingTable ==
  [toggle |-> "switchCommandService", set_brightness |-> "lightCommandService",
   set_color |-> "lightCommandService", set_effect |-> "lightCommandService",
   restart |-> "rebootService", factory_reset |-> "factoryResetService"]

\* the 'connected' listener of the dispatch has run
ConnectedHandled == \E k \in NativeSessionsOf("send") : sessions[k].op # "none"

\* the command carries what the argument of its operation reads
CarriesArgument ==
  /\ command \in {"toggle", "set_brightness", "set_color", "set_effect"} => payload.value.present
  /\ command = "set_color" => payload.value.hasColor

\* C15 as stated: once the session is connected, a recognised command leads
\* to exactly one native operation, the one of the mapping table.
C15_ExactlyOneMappedOperation ==
  /\ Len(invoked) <= 1
  /\ (ConnectedHandled /\ command \in KnownCommands) =>
       Len(invoked) = 1 /\ invoked[1].service = MappingTable[command]

\* C15 amended: never more than one operation per dispatch, and none before
\* 'connected'; once the session is connected, a recognised command whose
\* value carries what the operation's argument reads leads to exactly one
\* operation, the one of the mapping table; a recognised command without it
\* (no value, or no value.color for set_color) leads to none.
C15_OneMappedOperationWhenArgumentPresent ==
  /\ Len(invoked) <= 1
  /\ invoked # <<>> => ConnectedHandled /\ command \in KnownCommands
  /\ (ConnectedHandled /\ command \in KnownCommands) =>
       IF CarriesArgument
         THEN Len(invoked) = 1 /\ invoked[1].service = MappingTable[command]
         ELSE invoked = <<>> /\ result.state = "rejected"

C15_Witness ==
  /\ command = "restart" /\ result.state = "returned" /\ result.val = "native"
  /\ Len(invoked) = 1 /\ invoked[1].service = "rebootService"

\* C16: a set_color dispatch on a native port makes one light invocation
\* whose red, green and blue are the r, g and b of value.color and whose
\* key is a number obtained from the entityId (for "led_strip" too).
C16_SetColorInvocation ==
  (command = "set_color" /\ invoked # <<>>) =>
    /\ Len(invoked) = 1
    /\ invoked[1].service = "lightCommandService"
    /\ invoked[1].data.red = payload.value.color.r
    /\ invoked[1].data.green = payload.value.color.g
    /\ invoked[1].data.blue = payload.value.color.b
    /\ ~invoked[1].data.key.nan

FirstOutcome(s) ==
  LET ks == {k \in DOMAIN s.hist :
               s.hist[k] \in {"resolve_native", "reject_Timeout", "reject_error",
                              "reject_Unsupported", "reject_TypeError", "reject_op"}}
  IN IF ks = {} THEN "none"
     ELSE s.hist[CHOOSE k \in ks : \A j \in ks : k <= j]

TimerFires(k) == sessions[k].timer = "armed" /\ sessions'[k].timer = "fired"

\* C18: when the timer of a native dispatch fires while the dispatch is
\* pending (before 'connected' or during the native operation) the dispatch
\* fails with 'Timeout', and the session is torn down when the timer fires;
\* 'Timeout' is reported only when the timer fired first, an error signal
\* is reported as something else; and every dispatch eventually settles.
C18_DispatchTimeout ==
  /\ [][\A k \in NativeSessionsOf("send") :
          TimerFires(k) =>
            /\ result.state = "pending" =>
                 result'.state = "rejected" /\ result'.val = "Timeout"
            /\ sessions'[k].listeners = {} /\ ~sessions'[k].open
            /\ Teardowns(sessions'[k]) >= 1]_vars
  /\ [](\A k \in NativeSessionsOf("send") :
          /\ result.val = "Timeout" => FirstOutcome(sessions[k]) = "reject_Timeout"
          /\ FirstOutcome(sessions[k]) = "reject_error" =>
               result.state = "rejected" /\ result.val = "session error")
  /\ [](call = "send" => <>(result.state # "pending"))

C18_Witness ==
  \E k \in NativeSessionsOf("send") :
    /\ sessions[k].timer = "fired" /\ sessions[k].op = "inflight"
    /\ result.state = "rejected" /\ result.val = "Timeout"

----------------------------------------------------------------------------
(* Properties of repeated detection *)

FirstRun == 1 .. earlier[1].upto

SecondRun == (earlier[1].upto + 1) .. Len(probes)

\* the device answered every probe of the second call as it answered the
\* same probe of the first call
SameAnswers ==
  \A i \in FirstRun, j \in SecondRun :
    (probes[i].kind = probes[j].kind /\ probes[i].port = probes[j].port) =>
      probes[i].verdict = probes[j].verdict

\* C19: a second detectDevicePort call for the same address and port, with
\* every probe answered as in the first call, returns what the first call
\* returned, whatever sessions the first call left behind.
C19_DetectIdempotent ==
  (call = "detect" /\ Len(earlier) = 1 /\ pc = "done" /\ SameAnswers) =>
    /\ result.state = earlier[1].state
    /\ result.port = earlier[1].port
    /\ Len(probes) = 2 * earlier[1].upto

C19_Witness ==
  /\ call = "detect" /\ Len(earlier) = 1 /\ pc = "done" /\ SameAnswers
  /\ reqPort = OtherPort
  /\ earlier[1].port = NATIVE_PORT /\ result.port = NATIVE_PORT
  /\ Len(sessions) = 4

----------------------------------------------------------------------------
(* scanNetworkForDevices: the two phases *)

MulticastOver == call = "scan" /\ scan.pc \in {"sweep", "done"}

C13_SetupFailureSurfaces ==
  call = "scan" /\ scan.setup \in {"mdns_throws", "query_throws"} =>
    /\ scan.sweeps = 0
    /\ scan.outcome # "returned"
    /\ scan.pc = "done" => scan.outcome = "rejected"

\* C14: once the multicast socket exists, the end of the multicast phase
\* finds the response listener unregistered and the socket destroyed,
\* whether responses arrived or not and whether the query succeeded or not.
C14_MulticastCleanup ==
  MulticastOver /\ scan.socket # "none" =>
    ~scan.listener /\ scan.socket = "destroyed"

\* C20: the sweep concludes only when no attempt is still connecting; an
\* attempt that failed or timed out leaves its address out of the result and
\* never turns into a failure of the scan; and a sweep always concludes by
\* returning.
C20_SweepConcludes ==
  /\ [](call = "scan" /\ scan.pc = "done" =>
          \A k \in DOMAIN scan.attempts :
            Attempt(k).socket # "connecting" /\ Attempt(k).resolved)
  /\ [](call = "scan" =>
          \A k \in DOMAIN scan.attempts :
            Attempt(k).socket \in {"failed", "destroyed"} =>
              /\ scan.outcome # "rejected"
              /\ \A n \in DOMAIN scan.results : scan.results[n].ip # Attempt(k).ip)
  /\ (call = "scan" /\ scan.pc = "sweep") ~> (scan.pc = "done" /\ scan.outcome = "returned")

C20_Witness ==
  /\ call = "scan" /\ scan.pc = "done" /\ scan.outcome = "returned"
  /\ \E k \in DOMAIN scan.attempts : Attempt(k).socket = "failed"
  /\ \E k \in DOMAIN scan.attempts : Attempt(k).socket = "destroyed"
  /\ \E k \in DOMAIN scan.attempts :
       Attempt(k).socket = "ended" /\ scan.results[Len(scan.results)].ip = Attempt(k).ip

Swept == call = "scan" /\ scan.sweeps = 1

Accepted == {Attempt(k).ip : k \in {j \in DOMAIN scan.attempts : Attempt(j).socket = "ended"}}

\* C21: at every moment of a sweep, and so when it returns, the result is
\* one descriptor [name = address, ip = address, port = 6053] for each swept
\* address whose connection was accepted, and nothing else.
C21_SweepResultIsAccepted ==
  Swept =>
    /\ {scan.results[n].ip : n \in DOMAIN scan.results} = Accepted
    /\ Len(scan.results) = Cardinality(Accepted)
    /\ \A n \in DOMAIN scan.results :
         scan.results[n] = [name |-> scan.results[n].ip, ip |-> scan.results[n].ip,
                            port |-> 6053]
    /\ \A k \in DOMAIN scan.attempts :
         Attempt(k).socket # "ended" =>
           \A n \in DOMAIN scan.results : scan.results[n].ip # Attempt(k).ip

C21_Witness ==
  /\ Swept /\ scan.pc = "done" /\ Len(scan.results) = 2
  /\ \E k \in DOMAIN scan.attempts : Attempt(k).socket = "failed"

----------------------------------------------------------------------------
(* Concurrent probe and dispatch calls *)

RefreshReturned(c) ==
  \/ probes[c].verdict = "true"
  \/ \E i \in SocketProbeOf(c) : probes[i].verdict # "pending"

AllReturned ==
  /\ result.state # "pending"
  /\ \A c \in RefreshCalls : RefreshReturned(c)

\* the call a session belongs to
CallOf(s) == IF s.owner = "send" THEN <<"send", 0>> ELSE <<"probe", s.probe>>

\* a listener counts while the object it is registered on can still emit
LiveListeners(s) == IF s.destroyed THEN {} ELSE s.listeners

\* C22: every session belongs to one call and no call has two; a step
\* changes at most one session; and once the dispatch and every refresh call
\* have returned, no session is open and no listener is registered.
C22_NoSharedSessions ==
  /\ [](\A j, k \in DOMAIN sessions : CallOf(sessions[j]) = CallOf(sessions[k]) => j = k)
  /\ [][\A j, k \in DOMAIN sessions :
          sessions'[j] # sessions[j] /\ sessions'[k] # sessions[k] => j = k]_vars
  /\ [](AllReturned =>
          \A k \in DOMAIN sessions : ~sessions[k].open /\ LiveListeners(sessions[k]) = {})

----------------------------------------------------------------------------
(* The answers of the command route *)

\* the device refused the connection or its session failed
DeviceRefused == result.val \in {"refused", "session error"}

FailureClass ==
  CASE command \notin KnownCommands -> "unsupported"
    [] DeviceRefused                -> "unreachable"
    [] OTHER                        -> "internal"

TimeoutResponse == commandResponse([state |-> "rejected", port |-> NoPort, val |-> "Timeout"])

UnsupportedResponse ==
  commandResponse([state |-> "rejected", port |-> NoPort, val |-> "Unsupported command"])

\* C23: a failed command is answered differently for each of its three
\* causes: the answer for an unsupported command is not the one given for a
\* timeout, and the answer for a device that cannot be reached is neither of
\* these two.
C23_DistinguishableOutcomes ==
  call = "send" /\ result.state = "rejected" =>
    /\ FailureClass = "unsupported" => commandResponse(result) # TimeoutResponse
    /\ FailureClass = "unreachable" =>
         commandResponse(result) \notin {TimeoutResponse, UnsupportedResponse}
    /\ FailureClass = "internal" => commandResponse(result) # UnsupportedResponse

----------------------------------------------------------------------------
(* The multicast phase *)

\* the device one response yields on its own, <<>> when it yields none
Yield(packet) == handle(<<>>, packet)

\* the responses heard so far that yielded the address
YieldersOf(ip) ==
  {k \in DOMAIN scan.heard : Yield(scan.heard[k]) # <<>> /\ Yield(scan.heard[k])[1].ip = ip}

LastYielder(ip) == CHOOSE k \in YieldersOf(ip) : \A j \in YieldersOf(ip) : j <= k

\* C24: the collected devices hold one descriptor per address that some
\* response yielded, namely the one of the last response that yielded that
\* address, and a scan that returns after the window returns these.
C24_LastWriterWinsPerIp ==
  call = "scan" /\ scan.setup = "listening" =>
    /\ \A m, n \in DOMAIN scan.devices :
         scan.devices[m].ip = scan.devices[n].ip => m = n
    /\ \A n \in DOMAIN scan.devices :
         /\ YieldersOf(scan.devices[n].ip) # {}
         /\ scan.devices[n] = Yield(scan.heard[LastYielder(scan.devices[n].ip)])[1]
    /\ \A k \in DOMAIN scan.heard :
         Yield(scan.heard[k]) # <<>> =>
           \E n \in DOMAIN scan.devices : scan.devices[n].ip = Yield(scan.heard[k])[1].ip
    /\ scan.pc = "done" /\ scan.sweeps = 0 => scan.results = scan.devices

C24_Witness ==
  /\ call = "scan" /\ scan.pc = "done" /\ scan.sweeps = 0
  /\ Len(scan.heard) = 2 /\ Len(scan.results) = 1
  /\ Yield(scan.heard[1]) # <<>> /\ Yield(scan.heard[2]) # <<>>
  /\ Yield(scan.heard[1]) # Yield(scan.heard[2])
  /\ scan.results[1] = Yield(scan.heard[2])[1]

\* the pairs (address, port) of the records a response carries: a PTR
\* answer for the service, an SRV additional named like that PTR's data and
\* an A additional named like that SRV's target
Carried(packet) ==
  {[ip |-> packet.additionals[a].data, port |-> packet.additionals[s].port] :
     <<p, s, a>> \in
       {t \in (DOMAIN packet.answers) \X (DOMAIN packet.additionals)
                 \X (DOMAIN packet.additionals) :
          /\ packet.answers[t[1]].type = "PTR" /\ packet.answers[t[1]].name = SERVICE
          /\ packet.additionals[t[2]].type = "SRV"
          /\ packet.additionals[t[2]].name = packet.answers[t[1]].data
          /\ packet.additionals[t[3]].type = "A"
          /\ packet.additionals[t[3]].name = packet.additionals[t[2]].target}}

Responded ==
  call = "scan" /\ Len(scan'.heard) = Len(scan.heard) + 1

\* C25: a response that carries the three records adds or replaces the
\* descriptor of the A record's address, with the SRV record's port; a
\* response that lacks one of them leaves the collected devices as they were.
C25_ContributesIffThreeRecords ==
  [][Responded =>
       LET packet == scan'.heard[Len(scan'.heard)]
       IN IF Carried(packet) = {}
            THEN scan'.devices = scan.devices
            ELSE \E c \in Carried(packet) : \E n \in DOMAIN scan'.devices :
                   /\ scan'.devices[n].ip = c.ip /\ scan'.devices[n].port = c.port
                   /\ \A m \in DOMAIN scan'.devices \ {n} :
                        \E j \in DOMAIN scan.devices : scan'.devices[m] = scan.devices[j]]_vars

----------------------------------------------------------------------------
(* The sweep's candidates *)

\* the /24 prefixes of the host's external IPv4 interfaces
DerivedPrefixes ==
  {SubSeq(scan.ifaces[n].address, 1, 3) :
     n \in {m \in DOMAIN scan.ifaces :
              scan.ifaces[m].family = "IPv4" /\ ~scan.ifaces[m].internal}}

DefaultPrefixes == {<<192, 168, 0>>, <<192, 168, 1>>}

AttemptsAt(ip) == {k \in DOMAIN scan.attempts : Attempt(k).ip = ip}

SweptPrefixes == {SubSeq(Attempt(k).ip, 1, 3) : k \in DOMAIN scan.attempts}

\* C26: in a sweep every host number of every swept prefix has exactly one
\* connection attempt, also when two interfaces lie in the same subnet, and
\* nothing else is attempted.
C26_OneAttemptPerCandidate ==
  Swept =>
    /\ \A p \in SweptPrefixes \cup DerivedPrefixes : \A h \in 1..SweepHosts :
         Cardinality(AttemptsAt(Append(p, h))) = 1
    /\ \A k \in DOMAIN scan.attempts :
         /\ Attempt(k).ip[4] \in 1..SweepHosts
         /\ Attempt(k).port = 6053
    /\ Len(scan.attempts) = Cardinality(SweptPrefixes) * SweepHosts

C26_Witness ==
  /\ Swept /\ Cardinality(DerivedPrefixes) = 1
  /\ Cardinality({m \in DOMAIN scan.ifaces : ~scan.ifaces[m].internal}) = 2
  /\ Len(scan.attempts) = SweepHosts

----------------------------------------------------------------------------
(* checkSocket *)

\* the first value a handler of the session passed to resolve
FirstResolve(s) ==
  LET t == First(s.hist, "resolve_true")
      f == First(s.hist, "resolve_false")
  IN CASE t = 0 /\ f = 0 -> "none"
       [] f = 0 \/ (t # 0 /\ t < f) -> "true"
       [] OTHER -> "false"

Closed(s, upto) ==
  \E n \in 1..(upto - 1) : s.hist[n] \in {"end", "destroy"}

\* C28: checkSocket answers true exactly when its 'connect' listener ran,
\* which it does only while the timer is armed; whatever handler answers
\* has called end() or destroy() before resolving; and once the timer fired
\* the answer is false and stays false.
C28_SocketProbeVerdict ==
  \A k \in NativeSessionsOf("checkSocket") :
    LET s == sessions[k]
        v == probes[s.probe].verdict
    IN /\ v = "true" <=> Count(s.hist, "end") = 1
       /\ v = "true" =>
            /\ s.timer = "cleared"
            /\ First(s.hist, "clearTimeout") < First(s.hist, "end")
            /\ Closed(s, First(s.hist, "resolve_true"))
       /\ v = "false" => Closed(s, First(s.hist, "resolve_false"))
       /\ v = (IF FirstResolve(s) = "none" THEN "pending" ELSE FirstResolve(s))
       /\ v # "pending" => ~s.open
       /\ s.timer = "fired" => v = "false" /\ s.destroyed /\ Count(s.hist, "end") = 0

C28_Witness ==
  \E k \in NativeSessionsOf("checkSocket") :
    /\ probes[sessions[k].probe].verdict = "true"
    /\ Count(sessions[k].hist, "resolve_false") = 1
    /\ sessions[k].destroyed

----------------------------------------------------------------------------
(* Protocol selection of sendDeviceCommand *)

TransportErrors == {"refused", "timeout"}

\* C29: with port 80 the dispatch goes through the HTTP positions only,
\* opens no session and succeeds exactly when the POST met no transport or
\* timeout error; with any other port it opens at most one session, makes no
\* HTTP request, and in neither case is a probe started.
C29_ProtocolFromStoredPort ==
  call = "send" =>
    /\ probes = <<>>
    /\ reqPort = 80 =>
         /\ NativeSessionsOf("send") = {}
         /\ pc \in {"start", "http_resolve", "http_post", "done"}
         /\ pc = "done" =>
              (result.state = "returned" <=> result.val \notin TransportErrors)
    /\ reqPort # 80 =>
         /\ Cardinality(NativeSessionsOf("send")) <= 1
         /\ pc \in {"start", "native_resolve", "native_wait", "done"}
         /\ result.val \notin {"http", "refused", "timeout", "non2xx"}

----------------------------------------------------------------------------
(* An unrecognised command on a connected session *)

\* C30: on a native port, for a command name outside the six recognised ones
\* no native operation is ever invoked and the dispatch never succeeds; once the
\* session's 'connected' listener has run, the dispatch has failed with
\* 'Unsupported command', the timer is cleared and the session torn down.
C30_UnknownCommandOnConnectedSession ==
  call = "send" /\ DispatchProtocol(reqPort) = "native" /\ command \notin KnownCommands =>
    /\ invoked = <<>>
    /\ result.state # "returned"
    /\ \A k \in NativeSessionsOf("send") :
         sessions[k].op # "none" =>
           /\ sessions[k].op = "done"
           /\ result = [state |-> "rejected", port |-> NoPort, val |-> "Unsupported command"]
           /\ sessions[k].timer = "cleared"
           /\ sessions[k].listeners = {} /\ ~sessions[k].open
           /\ Teardowns(sessions[k]) = 1
           /\ Delivered(sessions[k]) = "reject_Unsupported"

C30_Witness ==
  /\ call = "send" /\ command \notin KnownCommands
  /\ \E k \in NativeSessionsOf("send") :
       sessions[k].op = "done" /\ result.val = "Unsupported command"

----------------------------------------------------------------------------
(* testDeviceConnection *)

\* C32: testDeviceConnection starts the native probe on the given port
\* first and the socket probe, on the same port, only once the native probe
\* has answered false; it starts nothing after a native success; and it
\* returns true exactly when one of its probes answered true.
C32_NativeThenSocket ==
  call = "test" =>
    /\ Len(probes) <= 2
    /\ Len(probes) >= 1 => probes[1].kind = "native" /\ probes[1].port = reqPort
    /\ Len(probes) = 2 =>
         /\ probes[2].kind = "socket" /\ probes[2].port = reqPort
         /\ probes[1].verdict = "false"
    /\ result.state # "rejected"
    /\ result.state = "returned" =>
         /\ \A i \in DOMAIN probes : probes[i].verdict \in {"true", "false"}
         /\ result.val = "true" <=> \E i \in DOMAIN probes : probes[i].verdict = "true"
         /\ result.val \in {"true", "false"}

C32_Witness ==
  /\ call = "test" /\ result.state = "returned" /\ result.val = "true"
  /\ Len(probes) = 2 /\ probes[1].verdict = "false"

----------------------------------------------------------------------------
(* When the native dispatch invokes an operation *)

Services ==
  {"switchCommandService", "lightCommandService", "rebootService", "factoryResetService"}

\* the positions of a session's history at which an operation was invoked
InvokedAt(s) == {n \in DOMAIN s.hist : s.hist[n] \in Services}

\* C33: every operation is invoked by the 'connected' listener of a dispatch
\* session, at a moment when that session has not been torn down; a
\* session whose listener never ran has invoked nothing, and without such a
\* session nothing is invoked.
C33_InvokeOnlyWhileConnected ==
  call = "send" =>
    /\ \A k \in NativeSessionsOf("send") :
         LET s == sessions[k]
         IN /\ \A n \in InvokedAt(s) :
                 /\ \A m \in 1..n : s.hist[m] \notin {"removeAllListeners", "disconnect",
                                                       "connect_throw"}
                 /\ "connected" \notin s.listeners /\ s.op # "none"
            /\ s.op = "none" => InvokedAt(s) = {}
            /\ Cardinality(InvokedAt(s)) <= 1
    /\ Len(invoked) =
         Cardinality({k \in NativeSessionsOf("send") : InvokedAt(sessions[k]) # {}})
    /\ \A n \in DOMAIN invoked : invoked[n].service \in Services

C33_Witness ==
  /\ call = "send" /\ Len(invoked) = 1
  /\ \E k \in NativeSessionsOf("send") :
       /\ sessions[k].timer = "fired" /\ sessions[k].op = "done"
       /\ Teardowns(sessions[k]) = 2
----------------------------------------------------------------------------
(* C31: POST /api/devices stores a device only when detectDevicePort       *)
(* resolved with a port, and stores it with that port: when detection      *)
(* resolves with null the registry is left as it was and the request is    *)
(* answered 400 'Device is not reachable'; otherwise exactly one device is *)
(* added, at the request's address, with the detected port whatever port   *)
(* the caller asked for.  No other step adds a device.                     *)

Detecting(n) ==
  /\ n \in DOMAIN requests
  /\ requests[n].kind = "add"
  /\ requests[n].pc = "detecting"
  /\ requests'[n].pc # "detecting"

C31_StoresOnlyDetected ==
  [][ /\ \A n \in DOMAIN requests :
           Detecting(n) =>
             IF detectedPort(requests[n].ip, requests[n].port) = NoPort
               THEN /\ registry' = registry
                    /\ requests'[n].response =
                         [status |-> 400, message |-> "Device is not reachable"]
               ELSE /\ Len(registry'.devices) = Len(registry.devices) + 1
                    /\ SubSeq(registry'.devices, 1, Len(registry.devices)) = registry.devices
                    /\ registry'.devices[Len(registry'.devices)].ip = requests[n].ip
                    /\ registry'.devices[Len(registry'.devices)].port =
                         detectedPort(requests[n].ip, requests[n].port)
      /\ Len(registry'.devices) > Len(registry.devices) =>
           \E n \in DOMAIN requests :
             Detecting(n) /\ detectedPort(requests[n].ip, requests[n].port) # NoPort
    ]_vars

\* one request was refused for an unreachable address and another stored a
\* device with a port the caller did not ask for
C31_Witness ==
  /\ \E n \in DOMAIN requests :
       /\ requests[n].kind = "add"
       /\ requests[n].response.message = "Device is not reachable"
  /\ \E n \in DOMAIN requests :
       /\ requests[n].kind = "add"
       /\ requests[n].id # 0
       /\ getDevice(registry, requests[n].id) # <<>>
       /\ getDevice(registry, requests[n].id)[1].port # requests[n].port
----------------------------------------------------------------------------
(* C34: of the POST /api/devices requests that carry one address, at most  *)
(* one creates a device: no two of them have each created a device that is *)
(* stored under that address.                                              *)

Created(n) ==
  /\ requests[n].kind = "add"
  /\ requests[n].id # 0
  /\ getDevice(registry, requests[n].id) # <<>>
  /\ getDevice(registry, requests[n].id)[1].ip = requests[n].ip

C34_AtMostOneCreatesPerIp ==
  \A n, m \in DOMAIN requests :
    (n # m /\ Created(n) /\ Created(m)) => requests[n].ip # requests[m].ip

----------------------------------------------------------------------------
(* C35: once every request has been answered, each stored device whose     *)
(* status was last written by a list refresh or by an update is marked     *)
(* with the verdict of a connection test of its current ip and port.  Stated for registries in which no two devices *)
(* share an address, so that the device a status write finds by ip is the  *)
(* one that was tested.                                                    *)

AllAnswered == \A n \in DOMAIN requests : requests[n].pc = "done"

UniqueIps(reg) ==
  \A i, j \in DOMAIN reg.devices : i # j => reg.devices[i].ip # reg.devices[j].ip

\* the device's status was last written by a list refresh or by an update
WrittenByRefresh(device) ==
  /\ device.lastSeen # 0
  /\ requests[device.lastSeen].kind \in {"list", "update"}

C35_StatusOfCurrentEndpoint ==
  (AllAnswered /\ UniqueIps(registry)) =>
    \A i \in DOMAIN registry.devices :
      WrittenByRefresh(registry.devices[i]) =>
        registry.devices[i].isOnline =
          reachable(registry.devices[i].ip, registry.devices[i].port)

\* the part of C35 that holds: a status write never brings back a device
C35_StatusWriteCreatesNothing ==
  [][ (\E n \in DOMAIN requests :
         requests[n].pc \in {"testing", "refreshing"} /\ requests'[n] # requests[n])
      => IdsOf(registry') = IdsOf(registry) ]_vars

----------------------------------------------------------------------------
(* C36: no request leaves two stored devices with one ip.  In particular a *)
(* PUT that arrives at a registry with distinct addresses leaves it with   *)
(* distinct addresses, and the status write that ends a PUT marks the      *)
(* device the PUT named.                                                   *)

UpdateArrives ==
  /\ Len(requests') = Len(requests) + 1
  /\ requests'[Len(requests')].kind = "update"

UpdateWrites(n) ==
  /\ n \in DOMAIN requests
  /\ requests[n].kind = "update"
  /\ requests[n].pc = "testing"
  /\ requests'[n].pc = "done"

C36_UpdateKeepsIpsUnique ==
  [][ /\ (UpdateArrives /\ UniqueIps(registry)) => UniqueIps(registry')
      /\ \A n \in DOMAIN requests :
           UpdateWrites(n) =>
             \A i \in DOMAIN registry.devices :
               registry'.devices[i] # registry.devices[i] =>
                 registry.devices[i].id = requests[n].id
    ]_vars
----------------------------------------------------------------------------
(* C37 as stated: the command route answers 404 for every request that     *)
(* names an unknown id and 400 'Device is offline' for every request that  *)
(* names a device stored with isOnline false.                              *)

Arrives(kind) ==
  /\ Len(requests') = Len(requests) + 1
  /\ requests'[Len(requests')].kind = kind

Arrived == requests'[Len(requests')]

OfflineResponse == [status |-> 400, message |-> "Device is offline"]
UnknownResponse == [status |-> 404, message |-> "Device not found"]

C37_UnknownAndOfflineAnswers ==
  [][ Arrives("command") =>
        /\ getDevice(registry, Arrived.id) = <<>> => Arrived.response = UnknownResponse
        /\ (getDevice(registry, Arrived.id) # <<>>
            /\ ~getDevice(registry, Arrived.id)[1].isOnline) =>
              Arrived.response = OfflineResponse
    ]_vars

(* C37 amended: a command is dispatched only to a device that is stored    *)
(* and marked online when the request arrives.  A request whose body       *)
(* passes deviceCommandSchema is answered 404 for an unknown id and 400    *)
(* 'Device is offline' for a device with isOnline false; one whose body    *)
(* does not is answered 400 'Invalid command data' whatever the id.  In    *)
(* all these cases sendDeviceCommand is not called.  The status route      *)
(* answers {online: false} for an offline device, and 404 for an unknown   *)
(* id, without calling getDeviceStatus.                                    *)

NotOnline(id) ==
  \/ getDevice(registry, id) = <<>>
  \/ ~getDevice(registry, id)[1].isOnline

C37_DispatchOnlyToOnlineDevice ==
  [][ /\ Arrives("command") =>
           /\ Arrived.dispatched =>
                /\ ~NotOnline(Arrived.id)
                /\ Arrived.target = [ip |-> getDevice(registry, Arrived.id)[1].ip,
                                     port |-> getDevice(registry, Arrived.id)[1].port]
           /\ NotOnline(Arrived.id) => (~Arrived.dispatched /\ Arrived.pc = "done")
           /\ (Arrived.valid /\ getDevice(registry, Arrived.id) = <<>>) =>
                Arrived.response = UnknownResponse
           /\ (Arrived.valid /\ getDevice(registry, Arrived.id) # <<>>
               /\ ~getDevice(registry, Arrived.id)[1].isOnline) =>
                Arrived.response = OfflineResponse
           /\ ~Arrived.valid =>
                Arrived.response = [status |-> 400, message |-> "Invalid command data"]
      /\ Arrives("status") =>
           /\ Arrived.probed => ~NotOnline(Arrived.id)
           /\ NotOnline(Arrived.id) => (~Arrived.probed /\ Arrived.pc = "done")
           /\ (getDevice(registry, Arrived.id) # <<>>
               /\ ~getDevice(registry, Arrived.id)[1].isOnline) =>
                Arrived.response = [status |-> 200, message |-> "online: false"]
      /\ \A n \in DOMAIN requests :
           /\ requests'[n].dispatched = requests[n].dispatched
           /\ requests'[n].probed = requests[n].probed
    ]_vars

\* a command and a status request were each refused for a stored device
\* that is offline
C37_Witness ==
  /\ \E n \in DOMAIN requests :
       /\ requests[n].kind = "command"
       /\ requests[n].response = OfflineResponse
  /\ \E n \in DOMAIN requests :
       /\ requests[n].kind = "status"
       /\ requests[n].response.message = "online: false"
       /\ ~requests[n].probed
----------------------------------------------------------------------------
(* C38: device ids are unique and increase in creation order.  The stored  *)
(* devices have strictly increasing ids, all below currentId; an id handed *)
(* out once is never handed out again, also after its device was deleted;  *)
(* and a device is created with isOnline false and lastSeen null.          *)

\* the ids createDevice has returned so far, to requests in flight or answered
HandedOut == {requests[n].id : n \in {m \in DOMAIN requests : requests[m].kind = "add"}} \ {0}

Creates(n) ==
  /\ n \in DOMAIN requests
  /\ requests[n].kind = "add"
  /\ requests[n].id = 0
  /\ requests'[n].id # 0

C38_IdsUniqueAndIncreasing ==
  [][ /\ \A i, j \in DOMAIN registry'.devices :
           i < j => registry'.devices[i].id < registry'.devices[j].id
      /\ \A i \in DOMAIN registry'.devices : registry'.devices[i].id < registry'.currentId
      /\ \A n \in DOMAIN requests :
           Creates(n) =>
             /\ requests'[n].id \notin IdsOf(registry)
             /\ \A id \in HandedOut : id < requests'[n].id
             /\ getDevice(registry', requests'[n].id) # <<>>
             /\ ~getDevice(registry', requests'[n].id)[1].isOnline
             /\ getDevice(registry', requests'[n].id)[1].lastSeen = 0
    ]_vars

\* a device was created after the device of an earlier request was deleted
C38_Witness ==
  \E n, k, m \in DOMAIN requests :
    /\ n < k /\ k < m
    /\ requests[n].kind = "add" /\ requests[n].id # 0
    /\ requests[k].kind = "delete" /\ requests[k].id = requests[n].id
    /\ requests[k].response.status = 200
    /\ requests[m].kind = "add" /\ requests[m].id # 0
    /\ getDevice(registry, requests[m].id) # <<>>

====
